---- MODULE Spec2Model ----
(***************************************************************************)
(* State-machine model of the task lifecycle controller of the LLM app     *)
(* developer service: the record store (app/database_utils.py), the remote *)
(* repository client (app/github_utils.py) and the round controller        *)
(* (app/task_handler.py).  One worker processes one task id.  Every call   *)
(* to an external system (repository host, git, LLM endpoint, evaluation   *)
(* callback, database file) has a nondeterministic outcome; time is a      *)
(* clock in seconds advanced by the environment.                           *)
(***************************************************************************)
EXTENDS Integers, Sequences, FiniteSets, TLC

(* ------------------------------------------------------------------ *)
(* Program constants, app/task_handler.py lines 23-29.                  *)
(* ------------------------------------------------------------------ *)
MAX_REPO_CREATION_ATTEMPTS == 30
ROUND_01_TIMEOUT_SECONDS == 600
ROUND_01_BUFFER_TIME_REQUIRED == 30
ROUND_02_TIMEOUT_SECONDS == 600
ROUND_02_BUFFER_TIME_REQUIRED == 30
PAGES_BUILD_TIME_ESTIMATE == 40

(* ------------------------------------------------------------------ *)
(* Bounds of the model.                                                 *)
(* ------------------------------------------------------------------ *)
\* The clock advances in quanta of TickSeconds seconds ...
TickSeconds == 300
\* ... until it has reached MaxNow seconds after the record was created.
MaxNow == 600
\* At most this many LLM-loop iterations run between two clock quanta
\* (a worker of finite speed).
MaxItersPerTick == 1
\* Submissions that arrive for the task id during one run.
MaxSubmissions == 1
\* The largest continuation ceiling (OPENAI_MAX_CONTINUATIONS) considered.
MaxCeiling == 2
\* The most <file> elements an LLM output holds.
MaxElements == 3

\* Values of OPENAI_API_REQUEST_TIMEOUT (seconds) the environment may hold.
LlmApproxChoices == {270, 290}
\* The 8 hex digits uuid4() may produce, two of them.
Suffixes == {"0a1b2c3d", "4e5f6a7b"}
\* The task id processed.
TaskId == "task-001"

\* SQL NULL in a TEXT column, and in a TIMESTAMP / INTEGER column.
NULL == "NULL"
NullTime == -1

(* ------------------------------------------------------------------ *)
(* Record store: app/database_utils.py                                  *)
(* ------------------------------------------------------------------ *)
\* The current (non-archive) columns that archive_task_round_01 copies.
ArchivedColumns ==
    {"email", "nonce", "brief", "evaluation_url", "checks", "attachments",
     "llm_output_path", "created_files", "commit_message", "commit_hash",
     "created_at", "updated_at"}

Round1Column(c) == "round1_" \o c

\* Columns of table tasks other than the key task_id (CREATE TABLE).
Columns ==
    ArchivedColumns \cup {"round"}
    \cup {Round1Column(c) : c \in ArchivedColumns}
    \cup {"repo_name", "repo_clone_url", "base_path", "owner",
          "repo_local_path", "pages_url"}

TimeColumns == {"created_at", "updated_at", "round1_created_at", "round1_updated_at"}

\* The value a column takes when an INSERT does not name it, at time t.
ColumnDefault(c, t) ==
    IF c \in {"checks", "attachments", "round1_checks", "round1_attachments"} THEN "[]"
    ELSE IF c \in {"created_at", "updated_at"} THEN t
    ELSE IF c \in TimeColumns THEN NullTime
    ELSE NULL

\* get_task: the row of task_id, or None.
HasTask(store, task_id) == task_id \in DOMAIN store

\* Variant of UpsertAccepted: a store that accepts any column name.
UpsertAccepted_AnyColumn(data) == DOMAIN data # {}

\* Whether sqlite accepts the statement upsert_task builds: data is not empty
\* and every key of data is a column of the table.
UpsertAccepted(data) == DOMAIN data # {} /\ DOMAIN data \subseteq Columns

\* Variant: the row is replaced, columns not named fall back to their defaults.
upsert_task_Replace(store, task_id, data, t) ==
    [k \in DOMAIN store \cup {task_id} |->
        IF k = task_id
        THEN [c \in Columns |->
                IF c \in DOMAIN data THEN data[c] ELSE ColumnDefault(c, t)]
        ELSE store[k]]

\* Variant: on the update path updated_at is an ordinary column.
upsert_task_NoTrigger(store, task_id, data, t) ==
    IF HasTask(store, task_id)
    THEN [store EXCEPT ![task_id] =
            [c \in Columns |->
                IF c \in DOMAIN data THEN data[c] ELSE store[task_id][c]]]
    ELSE [k \in DOMAIN store \cup {task_id} |->
            IF k = task_id
            THEN [c \in Columns |->
                    IF c \in DOMAIN data THEN data[c] ELSE ColumnDefault(c, t)]
            ELSE store[k]]

\* upsert_task(task_id, data) at time t, for a statement sqlite accepts:
\* INSERT ... ON CONFLICT(task_id) DO UPDATE SET col = excluded.col, followed on
\* the update path by the trigger update_task_timestamp.
upsert_task(store, task_id, data, t) ==
    IF HasTask(store, task_id)
    THEN [store EXCEPT ![task_id] =
            [c \in Columns |->
                IF c = "updated_at" THEN t
                ELSE IF c \in DOMAIN data THEN data[c]
                ELSE store[task_id][c]]]
    ELSE [k \in DOMAIN store \cup {task_id} |->
            IF k = task_id
            THEN [c \in Columns |->
                    IF c \in DOMAIN data THEN data[c] ELSE ColumnDefault(c, t)]
            ELSE store[k]]

(* ------------------------------------------------------------------ *)
(* Exceptions.  An exception is [cls, msg]; an except clause names the  *)
(* classes it catches.  create_remote_repository raises a class it      *)
(* defines locally (github_utils.py lines 64-65), which is not the      *)
(* module-level GitHubError that task_handler imports.                  *)
(* ------------------------------------------------------------------ *)
ModuleGitHubError == "app.github_utils.GitHubError"
LocalGitHubError == "create_remote_repository.<locals>.GitHubError"

\* The classes of the model and the builtin bases each derives from.
Bases(cls) ==
    CASE cls = "FileNotFoundError" -> {"FileNotFoundError", "OSError", "Exception"}
      [] cls = "JSONDecodeError" -> {"JSONDecodeError", "ValueError", "Exception"}
      [] cls = "ParseError" -> {"ParseError", "SyntaxError", "Exception"}
      [] cls \in {"requests.ConnectionError", "requests.HTTPError"}
            -> {cls, "requests.RequestException", "OSError", "Exception"}
      [] OTHER -> {cls, "Exception"}

\* isinstance(exc, one of classes): does `except classes` catch exc?
Catches(classes, exc) == Bases(exc.cls) \cap classes # {}

Exc(cls, msg) == [cls |-> cls, msg |-> msg]

\* str(n) for a natural number n.
Digits == <<"0", "1", "2", "3", "4", "5", "6", "7", "8", "9">>
RECURSIVE ToStr(_)
ToStr(n) == IF n < 10 THEN Digits[n + 1] ELSE ToStr(n \div 10) \o Digits[(n % 10) + 1]

(* ------------------------------------------------------------------ *)
(* State.                                                               *)
(* ------------------------------------------------------------------ *)
VARIABLES
    db,            \* the tasks table: task_id -> row
    now,           \* get_current_utc_time(), seconds
    env,           \* process environment: llmApprox, githubToken
    remoteRepos,   \* names of the repositories that exist on the host
    git,           \* the local checkout and its remote branch
    pc,            \* the worker's position in handle_llm_task
    frame,         \* the worker's local variables
    result,        \* how the worker's call ended
    itersThisTick, \* LLM-loop iterations since the clock last advanced
    obs,           \* history of the run (what was called, how it ended)
    intake,        \* the submissions made, the last response, the tasks scheduled
    llmClient,     \* the LLM client's call: its script of responses and its locals
    writer         \* create_files_from_response: its input, its locals, the work tree

vars ==
    <<db, now, env, remoteRepos, git, pc, frame, result, itersThisTick, obs, intake,
      llmClient, writer>>

(* ------------------------------------------------------------------ *)
(* Remote repository host and create_remote_repository.                 *)
(* ------------------------------------------------------------------ *)
HostOwner == "octo-student"
BasePath == "/srv/all_repositories"

\* What can happen to POST /user/repos: the host serves it, answers 422 for
\* another validation failure, answers 500, or the connection fails.
HostOutcomes == {"serve", "invalid", "error", "transport"}

\* The host's response to the creation request.
HostCreateResponse(name, host, repos) ==
    IF host = "serve"
    THEN IF name \in repos
         THEN [status_code |-> 422, text |-> "name already exists on this account"]
         ELSE [status_code |-> 201, text |-> "created"]
    ELSE IF host = "invalid"
    THEN [status_code |-> 422, text |-> "name is invalid"]
    ELSE [status_code |-> 500, text |-> "server error"]

\* "name already exists" in text.lower()
TextHasNameAlreadyExists(text) == text = "name already exists on this account"

\* "already exists" in str(exc).lower()
MsgHasAlreadyExists(msg) ==
    msg \in {"Repository with this name already exists.",
             "Failed to create repository: name already exists on this account"}

RepoInfo(name) ==
    [name |-> name,
     html_url |-> "https://github.com/" \o HostOwner \o "/" \o name,
     clone_url |-> "https://github.com/" \o HostOwner \o "/" \o name \o ".git",
     owner |-> [login |-> HostOwner]]

NoRepoInfo == [name |-> NULL, html_url |-> NULL, clone_url |-> NULL, owner |-> [login |-> NULL]]
NoExc == Exc("none", "")

\* create_remote_repository(repo_name, description): the repository's JSON, or
\* the exception raised.  Every GitHubError raised here is the local class.
create_remote_repository(name, token, host, repos) ==
    IF ~token
    THEN [ok |-> FALSE, repo_info |-> NoRepoInfo,
          exc |-> Exc(LocalGitHubError, "Missing GITHUB_TOKEN environment variable.")]
    ELSE IF host = "transport"
    THEN [ok |-> FALSE, repo_info |-> NoRepoInfo,
          exc |-> Exc("requests.ConnectionError", "connection failed")]
    ELSE LET r == HostCreateResponse(name, host, repos) IN
         IF r.status_code = 201
         THEN [ok |-> TRUE, repo_info |-> RepoInfo(name), exc |-> NoExc]
         ELSE IF r.status_code = 422 /\ TextHasNameAlreadyExists(r.text)
         THEN [ok |-> FALSE, repo_info |-> NoRepoInfo,
               exc |-> Exc(LocalGitHubError, "Repository with this name already exists.")]
         ELSE [ok |-> FALSE, repo_info |-> NoRepoInfo,
               exc |-> Exc(LocalGitHubError, "Failed to create repository: " \o r.text)]

(* ------------------------------------------------------------------ *)
(* Outcomes of the worker's call.                                       *)
(* ------------------------------------------------------------------ *)
NoResult == [kind |-> "none", status_code |-> 0, detail |-> ""]
Returned(msg) == [kind |-> "returned", status_code |-> 0, detail |-> msg]
HTTPException(code, detail) == [kind |-> "HTTPException", status_code |-> code, detail |-> detail]
\* An exception no except clause of the handler catches leaves the call as it is.
Uncaught(exc) == [kind |-> "uncaught", status_code |-> 0, detail |-> exc.cls]

(* ------------------------------------------------------------------ *)
(* archive_task_round_01: database_utils.py lines 163-203.              *)
(* ------------------------------------------------------------------ *)
\* Variant: an archival that leaves round1_commit_hash as it was.
archive_task_round_01_NoHash(store, task_id, t) ==
    IF ~HasTask(store, task_id) THEN store
    ELSE [store EXCEPT ![task_id] =
            [c \in Columns |->
                IF c = "updated_at" THEN t
                ELSE IF c = "round1_commit_hash" THEN store[task_id][c]
                ELSE IF \E a \in ArchivedColumns : c = Round1Column(a)
                THEN store[task_id][CHOOSE a \in ArchivedColumns : c = Round1Column(a)]
                ELSE store[task_id][c]]]

\* UPDATE tasks SET round1_<c> = <c> for the archived columns (the right-hand
\* sides are the values before the statement), then the trigger refreshes
\* updated_at.  A task id with no row is left alone (the function returns False).
archive_task_round_01(store, task_id, t) ==
    IF ~HasTask(store, task_id) THEN store
    ELSE [store EXCEPT ![task_id] =
            [c \in Columns |->
                IF c = "updated_at" THEN t
                ELSE IF \E a \in ArchivedColumns : c = Round1Column(a)
                THEN store[task_id][CHOOSE a \in ArchivedColumns : c = Round1Column(a)]
                ELSE store[task_id][c]]]

(* ------------------------------------------------------------------ *)
(* git_commit_and_push: github_utils.py lines 178-212.                  *)
(* The checkout is [cloned, head, remoteHead, dirty]: head and          *)
(* remoteHead count the commits of the local and of the remote main     *)
(* branch, dirty says the work tree differs from HEAD.                  *)
(* ------------------------------------------------------------------ *)
NoCheckout == [cloned |-> FALSE, head |-> 0, remoteHead |-> 0, dirty |-> FALSE]

\* commit_hash[:7] of the n-th commit.
ShortHash(n) == "sha" \o ToStr(n)

\* What the git subprocesses may do.
GitOutcomes == {"ok", "add_fails", "commit_fails", "push_fails"}

\* Variant: the commit is made whether or not anything is staged.
git_commit_and_push_AllowEmpty(g, token, message, outcome) ==
    IF ~token
    THEN [git |-> g, ret |-> NULL,
          exc |-> Exc(ModuleGitHubError, "Missing GITHUB_TOKEN environment variable for git push.")]
    ELSE IF outcome = "add_fails"
    THEN [git |-> g, ret |-> NULL, exc |-> Exc("CalledProcessError", "git add")]
    ELSE IF message = NULL
    THEN [git |-> g, ret |-> NULL, exc |-> Exc("TypeError", "expected str, not NoneType")]
    ELSE IF outcome = "commit_fails"
    THEN [git |-> g, ret |-> NULL, exc |-> Exc("CalledProcessError", "git commit")]
    ELSE LET committed == [g EXCEPT !.head = g.head + 1, !.dirty = FALSE] IN
         IF outcome = "push_fails"
         THEN [git |-> committed, ret |-> NULL, exc |-> Exc("CalledProcessError", "git push")]
         ELSE [git |-> [committed EXCEPT !.remoteHead = committed.head],
               ret |-> ShortHash(committed.head), exc |-> NoExc]

\* [git, ret, exc]: the checkout afterwards, the value returned (NULL for
\* None) and the exception raised (NoExc for none).
git_commit_and_push(g, token, message, outcome) ==
    IF ~token
    THEN [git |-> g, ret |-> NULL,
          exc |-> Exc(ModuleGitHubError, "Missing GITHUB_TOKEN environment variable for git push.")]
    ELSE IF outcome = "add_fails"
    THEN [git |-> g, ret |-> NULL, exc |-> Exc("CalledProcessError", "git add")]
    ELSE IF ~g.dirty
    THEN [git |-> g, ret |-> NULL, exc |-> NoExc]
    ELSE IF message = NULL
    THEN [git |-> g, ret |-> NULL, exc |-> Exc("TypeError", "expected str, not NoneType")]
    ELSE IF outcome = "commit_fails"
    THEN [git |-> g, ret |-> NULL, exc |-> Exc("CalledProcessError", "git commit")]
    ELSE LET committed == [g EXCEPT !.head = g.head + 1, !.dirty = FALSE] IN
         IF outcome = "push_fails"
         THEN [git |-> committed, ret |-> NULL, exc |-> Exc("CalledProcessError", "git push")]
         ELSE [git |-> [committed EXCEPT !.remoteHead = committed.head],
               ret |-> ShortHash(committed.head), exc |-> NoExc]

(* ------------------------------------------------------------------ *)
(* Initial states: the record the worker is called on.                  *)
(* ------------------------------------------------------------------ *)
EmptyStore == <<>>

\* json.dumps of the attachment list: none, one well-formed data URI, one
\* that is no data URI.
AttachmentChoices == {"[]", "[data-uri]", "[not-a-data-uri]"}

RoundTag(r) == "r" \o ToStr(r)

\* The request fields the intake writes for a submission of round r (those of
\* its keys that are columns of the table).
RequestData(r, att, t) ==
    [email |-> "student@example.com", round |-> r, nonce |-> "nonce-" \o RoundTag(r),
     brief |-> "brief-" \o RoundTag(r), evaluation_url |-> "https://example.com/evaluate",
     checks |-> "[checks-" \o RoundTag(r) \o "]", attachments |-> att,
     created_at |-> t, updated_at |-> t]

\* A record on which round 1 has not run.
FreshRecords(rounds) ==
    {upsert_task(EmptyStore, TaskId, RequestData(r, att, 0), 0) :
        r \in rounds, att \in AttachmentChoices}

\* The record round 1 leaves behind (seeded, hosted, with or without LLM
\* output, archived), on which round 2 was then recorded.
AfterRound1(att1, llm, att2) ==
    LET name == TaskId \o "-" \o "9c8d7e6f"
        path == BasePath \o "/" \o name
        s1 == upsert_task(EmptyStore, TaskId, RequestData(1, att1, 0), 0)
        s2 == upsert_task(s1, TaskId,
                [repo_name |-> name, repo_clone_url |-> RepoInfo(name).html_url,
                 base_path |-> BasePath, owner |-> HostOwner], 0)
        s3 == upsert_task(s2, TaskId,
                [repo_local_path |-> path, commit_hash |-> ShortHash(1)], 0)
        s4 == upsert_task(s3, TaskId,
                [pages_url |-> "https://" \o HostOwner \o ".github.io/" \o name \o "/"], 0)
        s5 == IF llm
              THEN upsert_task(s4, TaskId,
                     [llm_output_path |-> path \o "/.llm_output_round_1.txt",
                      created_files |-> "[index.html]",
                      commit_message |-> "feat: generated app",
                      commit_hash |-> ShortHash(2)], 0)
              ELSE s4
        s6 == archive_task_round_01(s5, TaskId, 0)
    IN  upsert_task(s6, TaskId, RequestData(2, att2, 0), 0)

NoFrame ==
    [attempt |-> 0, repo_name |-> NULL, repo_info |-> NoRepoInfo,
     complete_repo_path |-> NULL, task_created_at |-> 0,
     time_elapsed |-> 0, time_left |-> 0]

NoObs ==
    [createCalls |-> 0, created |-> {}, collisions |-> 0, lastCreate |-> "none",
     setupCalls |-> 0, setupExc |-> NoExc,
     checks |-> 0, skippedAtEntry |-> FALSE, llmCalls |-> 0, succIters |-> 0,
     iterFailed |-> FALSE, iterExc |-> NoExc, archiveCalls |-> 0, notifyCalls |-> 0, posts |-> 0,
     pagesCalls |-> 0, pagesExc |-> NoExc, archiveFailed |-> FALSE, postOkAt |-> 0]

\* No submission has been made.
NoIntake == [submitted |-> 0, status_code |-> 0, detail |-> "", scheduled |-> {}]

\* The LLM client is not running.
NoLlm ==
    [pc |-> "off", script |-> <<>>, ceiling |-> 0, continuation_attempts |-> 0,
     full_text |-> <<>>, response_id |-> NULL, finish_reason |-> NULL,
     new_conversation |-> <<>>, requests |-> <<>>, ret |-> <<>>]

\* create_files_from_response is not running.
NoWriter ==
    [pc |-> "off", wellFormed |-> TRUE, elements |-> <<>>, i |-> 1,
     created_files |-> <<>>, tree |-> <<>>, dirs |-> {}, wrote |-> <<>>, ret |-> <<>>]

\* scenario "none": no record; "fresh": a record of round 0, 1, 2 or 3 on
\* which nothing ran; "second": round 2 recorded after a finished round 1.
Init ==
    /\ now = 0
    /\ env \in [llmApprox : LlmApproxChoices, githubToken : BOOLEAN]
    /\ pc = "idle"
    /\ frame = NoFrame
    /\ result = NoResult
    /\ itersThisTick = 0
    /\ obs = NoObs
    /\ intake = NoIntake
    /\ llmClient = NoLlm
    /\ writer = NoWriter
    /\ \/ /\ db \in {EmptyStore} \cup FreshRecords({0, 1, 2, 3})
          /\ remoteRepos = {TaskId \o "-" \o "0a1b2c3d"}
          /\ git = NoCheckout
       \/ /\ \E llm \in BOOLEAN, att2 \in AttachmentChoices :
                /\ db = AfterRound1("[]", llm, att2)
                /\ git = [cloned |-> TRUE, head |-> IF llm THEN 2 ELSE 1,
                          remoteHead |-> IF llm THEN 2 ELSE 1, dirty |-> FALSE]
          /\ remoteRepos = {TaskId \o "-" \o "9c8d7e6f"}

(* ------------------------------------------------------------------ *)
(* The clock.                                                           *)
(* ------------------------------------------------------------------ *)
Tick ==
    /\ pc # "done"
    /\ now < MaxNow
    /\ now' = now + TickSeconds
    /\ itersThisTick' = 0
    /\ UNCHANGED <<intake, llmClient, writer, db, env, remoteRepos, git, pc, frame, result, obs>>

(* ------------------------------------------------------------------ *)
(* handle_llm_task: task_handler.py lines 31-42.                        *)
(* ------------------------------------------------------------------ *)
\* Variant: every stored round other than 1 is served by the round-2 procedure.
HandleLlmTask_Round2Default ==
    /\ pc = "idle"
    /\ LET found == HasTask(db, TaskId) IN
       IF found /\ db[TaskId].round = 1
       THEN /\ pc' = "r1_create"
            /\ result' = result
       ELSE IF found
       THEN /\ pc' = "r2_attach"
            /\ result' = result
       ELSE /\ pc' = "done"
            /\ result' = HTTPException(400, "Unsupported round index: None")
    /\ UNCHANGED <<intake, llmClient, writer, db, now, env, remoteRepos, git, frame, itersThisTick, obs>>

\* Variant: a stored round of 2 is served by the round-1 procedure as well.
HandleLlmTask_AlwaysRound1 ==
    /\ pc = "idle"
    /\ LET found == HasTask(db, TaskId) IN
       IF found /\ db[TaskId].round \in {1, 2}
       THEN /\ pc' = "r1_create"
            /\ result' = result
       ELSE /\ pc' = "done"
            /\ result' = HTTPException(400, "Unsupported round index: "
                            \o (IF found THEN ToStr(db[TaskId].round) ELSE "None"))
    /\ UNCHANGED <<intake, llmClient, writer, db, now, env, remoteRepos, git, frame, itersThisTick, obs>>

HandleLlmTask ==
    /\ pc = "idle"
    /\ LET found == HasTask(db, TaskId) IN
       IF found /\ db[TaskId].round = 1
       THEN /\ pc' = "r1_create"
            /\ result' = result
       ELSE IF found /\ db[TaskId].round = 2
       THEN /\ pc' = "r2_attach"
            /\ result' = result
       ELSE /\ pc' = "done"
            /\ result' = HTTPException(400, "Unsupported round index: "
                            \o (IF found THEN ToStr(db[TaskId].round) ELSE "None"))
    /\ UNCHANGED <<intake, llmClient, writer, db, now, env, remoteRepos, git, frame, itersThisTick, obs>>

(* ------------------------------------------------------------------ *)
(* handle_round_01, step 1: task_handler.py lines 50-72 and 208-211.    *)
(* ------------------------------------------------------------------ *)
\* What the except clause of lines 66-72 does with the exception raised in
\* the try block of lines 54-65 on attempt number `attempt`.
CreateDisposition(exc, attempt) ==
    IF exc = NoExc THEN "proceed"
    ELSE IF Catches({ModuleGitHubError}, exc)
    THEN IF MsgHasAlreadyExists(exc.msg) /\ attempt < MAX_REPO_CREATION_ATTEMPTS - 1
         THEN "continue"
         ELSE "raise"
    ELSE "propagate"

\* `for attempt in range(MAX_REPO_CREATION_ATTEMPTS)`: is there an iteration
\* number `attempt`?
InRange(attempt) == attempt < MAX_REPO_CREATION_ATTEMPTS

\* Variant: the owner is not persisted with the other identity fields.
RepoIdentityFields_NoOwner(name, repo_info) ==
    [repo_name |-> name, repo_clone_url |-> repo_info.html_url, base_path |-> BasePath]

\* The fields persisted on a successful creation, lines 59-65.
RepoIdentityFields(name, repo_info) ==
    [repo_name |-> name, repo_clone_url |-> repo_info.html_url,
     base_path |-> BasePath, owner |-> repo_info.owner.login]

\* Variant of R1CreateRepo: a creation loop that goes round again whatever
\* the call did, and has no last iteration.
R1CreateRepo_Unbounded ==
    /\ pc = "r1_create"
    /\ \E suffix \in Suffixes, host \in HostOutcomes :
        LET name == TaskId \o "-" \o suffix
            r == create_remote_repository(name, env.githubToken, host, remoteRepos)
            collided == ~r.ok /\ r.exc.msg = "Repository with this name already exists."
        IN  /\ remoteRepos' = IF r.ok THEN remoteRepos \cup {name} ELSE remoteRepos
            /\ obs' = [obs EXCEPT
                        !.createCalls = @ + 1,
                        !.created = IF r.ok THEN @ \cup {name} ELSE @,
                        !.collisions = IF collided THEN @ + 1 ELSE @,
                        !.lastCreate = IF r.ok THEN "created"
                                       ELSE IF collided THEN "collision" ELSE "failure"]
            /\ frame' = [frame EXCEPT !.repo_name = name, !.attempt = @ + 1]
    /\ UNCHANGED <<intake, llmClient, writer, db, now, env, git, pc, result, itersThisTick>>

\* One iteration of the for loop up to the end of its first try block.
R1CreateRepo ==
    /\ pc = "r1_create"
    /\ \E suffix \in Suffixes, host \in HostOutcomes, dbok \in BOOLEAN :
        LET name == TaskId \o "-" \o suffix
            r == create_remote_repository(name, env.githubToken, host, remoteRepos)
            exc == IF ~r.ok THEN r.exc
                   ELSE IF dbok THEN NoExc
                   ELSE Exc("sqlite3.OperationalError", "database is locked")
            d == CreateDisposition(exc, frame.attempt)
            collided == ~r.ok /\ r.exc.msg = "Repository with this name already exists."
        IN  /\ remoteRepos' = IF r.ok THEN remoteRepos \cup {name} ELSE remoteRepos
            /\ obs' = [obs EXCEPT
                        !.createCalls = @ + 1,
                        !.created = IF r.ok THEN @ \cup {name} ELSE @,
                        !.collisions = IF collided THEN @ + 1 ELSE @,
                        !.lastCreate = IF r.ok THEN "created"
                                       ELSE IF collided THEN "collision" ELSE "failure"]
            /\ db' = IF d = "proceed"
                     THEN upsert_task(db, TaskId, RepoIdentityFields(name, r.repo_info), now)
                     ELSE db
            /\ frame' = [frame EXCEPT
                            !.repo_name = name,
                            !.repo_info = IF r.ok THEN r.repo_info ELSE @,
                            !.attempt = IF d = "continue" THEN @ + 1 ELSE @]
            /\ pc' = IF d = "proceed" THEN "r1_setup"
                     ELSE IF d = "continue" /\ InRange(frame.attempt + 1) THEN "r1_create"
                     ELSE "done"
            /\ result' =
                 IF d = "proceed" THEN result
                 ELSE IF d = "continue"
                 THEN IF InRange(frame.attempt + 1)
                      THEN result
                      ELSE HTTPException(500, "Exhausted attempts to create a unique repository.")
                 ELSE IF d = "raise"
                 THEN HTTPException(502, "Failed to create repository: " \o exc.msg)
                 ELSE Uncaught(exc)
    /\ UNCHANGED <<intake, llmClient, writer, now, env, git, itersThisTick>>

(* ------------------------------------------------------------------ *)
(* setup_local_repo: github_utils.py lines 215-239, and its call in     *)
(* handle_round_01, task_handler.py lines 74-86.                        *)
(* ------------------------------------------------------------------ *)
\* What the subprocesses and the file system may do during the seeding.
SetupOutcomes == {"clone_fails", "seed_fails"} \cup GitOutcomes

\* [git, path, commit_sha, exc] for the row of the task.
setup_local_repo(row, g, token, ext) ==
    LET repo_path == row.base_path \o "/" \o row.repo_name
        cloned == [cloned |-> TRUE, head |-> 0, remoteHead |-> 0, dirty |-> FALSE]
        seeded == [cloned EXCEPT !.dirty = TRUE]
        pushed == git_commit_and_push(seeded, token,
                        "Add initial instructions and attachments", ext)
    IN  IF ext = "clone_fails"
        THEN [git |-> g, path |-> NULL, commit_sha |-> NULL,
              exc |-> Exc("CalledProcessError", "git clone")]
        ELSE IF ext = "seed_fails"
        THEN [git |-> seeded, path |-> NULL, commit_sha |-> NULL,
              exc |-> Exc("FileNotFoundError", "license_template.txt")]
        ELSE IF row.attachments = "[not-a-data-uri]"
        THEN [git |-> seeded, path |-> NULL, commit_sha |-> NULL,
              exc |-> Exc("ValueError", "Attachment is not a valid data URI.")]
        ELSE [git |-> pushed.git, path |-> repo_path, commit_sha |-> pushed.ret,
              exc |-> pushed.exc]

\* Variant: an except clause that names the hosting error only.
PrepareCaught_HostOnly == {ModuleGitHubError}

\* The classes the except clause of lines 82-86 names.
PrepareCaught ==
    {ModuleGitHubError, "OSError", "RuntimeError", "ValueError", "CalledProcessError"}

R1SetupLocalRepo ==
    /\ pc = "r1_setup"
    /\ \E ext \in SetupOutcomes, dbok \in BOOLEAN :
        LET r == setup_local_repo(db[TaskId], git, env.githubToken, ext)
            exc == IF r.exc # NoExc THEN r.exc
                   ELSE IF dbok THEN NoExc
                   ELSE Exc("sqlite3.OperationalError", "database is locked")
        IN  /\ git' = r.git
            /\ obs' = [obs EXCEPT !.setupCalls = @ + 1, !.setupExc = exc]
            /\ db' = IF exc = NoExc
                     THEN upsert_task(db, TaskId,
                            [repo_local_path |-> r.path, commit_hash |-> r.commit_sha], now)
                     ELSE db
            /\ frame' = IF r.exc = NoExc
                        THEN [frame EXCEPT !.complete_repo_path = r.path]
                        ELSE frame
            /\ pc' = IF exc = NoExc THEN "r1_pages" ELSE "done"
            /\ result' =
                 IF exc = NoExc THEN result
                 ELSE IF Catches(PrepareCaught, exc)
                 THEN HTTPException(500, "Failed to prepare repository: " \o exc.msg)
                 ELSE Uncaught(exc)
    /\ UNCHANGED <<intake, llmClient, writer, now, env, remoteRepos, itersThisTick>>

(* ------------------------------------------------------------------ *)
(* enable_github_pages: github_utils.py lines 99-130, and its call in   *)
(* handle_round_01, task_handler.py lines 88-107.                       *)
(* ------------------------------------------------------------------ *)
\* The host answers 201 with the site's JSON, 204 with no body, an error
\* status, or the connection fails.
PagesOutcomes == {"created", "no_content", "error", "transport"}

\* [html_url, exc]
enable_github_pages(repo_name, owner, token, host) ==
    IF ~token
    THEN [html_url |-> NULL,
          exc |-> Exc(ModuleGitHubError, "Missing GITHUB_TOKEN environment variable.")]
    ELSE IF host = "transport"
    THEN [html_url |-> NULL, exc |-> Exc("requests.ConnectionError", "connection failed")]
    ELSE IF host = "created"
    THEN [html_url |-> "https://" \o owner \o ".github.io/" \o repo_name \o "/", exc |-> NoExc]
    ELSE IF host = "no_content"
    THEN [html_url |-> NULL, exc |-> Exc("JSONDecodeError", "Expecting value")]
    ELSE [html_url |-> NULL, exc |-> Exc(ModuleGitHubError, "Failed to enable GitHub Pages")]

R1EnablePages ==
    /\ pc = "r1_pages"
    /\ \E host \in PagesOutcomes, dbok \in BOOLEAN :
        LET r == enable_github_pages(frame.repo_name, frame.repo_info.owner.login,
                                     env.githubToken, host)
            exc == IF r.exc # NoExc THEN r.exc
                   ELSE IF dbok THEN NoExc
                   ELSE Exc("sqlite3.OperationalError", "database is locked")
        IN  /\ db' = IF exc = NoExc
                     THEN upsert_task(db, TaskId, [pages_url |-> r.html_url], now)
                     ELSE db
            /\ pc' = IF exc = NoExc THEN "r1_check" ELSE "done"
            /\ obs' = [obs EXCEPT !.pagesCalls = @ + 1, !.pagesExc = r.exc]
            /\ frame' = IF exc = NoExc
                        THEN [frame EXCEPT !.task_created_at = db[TaskId].created_at]
                        ELSE frame
            /\ result' =
                 IF exc = NoExc THEN result
                 ELSE IF Catches({ModuleGitHubError}, exc)
                 THEN HTTPException(502, "Failed to enable GitHub Pages: " \o exc.msg)
                 ELSE Uncaught(exc)
    /\ UNCHANGED <<intake, llmClient, writer, now, env, remoteRepos, git, itersThisTick>>

(* ------------------------------------------------------------------ *)
(* The deadline check of the LLM loop: task_handler.py lines 108-114    *)
(* (round 1) and 244-251 (round 2).                                     *)
(* ------------------------------------------------------------------ *)
\* Variants of the deadline condition: one forgets the buffer, one never
\* finds a lack of time.
LackOfTime_NoBuffer(llm_approx, buffer, time_left) == llm_approx > time_left

LackOfTime_Never(llm_approx, buffer, time_left) == FALSE

\* LLM_APPROX_TIME_REQUIRED + ROUND_0x_BUFFER_TIME_REQUIRED > time_left
LackOfTime(llm_approx, buffer, time_left) == llm_approx + buffer > time_left

DeadlineCheck(timeout, buffer, llmPc, exitPc) ==
    LET time_elapsed == now - frame.task_created_at
        time_left == timeout - time_elapsed
        lack == LackOfTime(env.llmApprox, buffer, time_left)
    IN  /\ frame' = [frame EXCEPT !.time_elapsed = time_elapsed, !.time_left = time_left]
        /\ pc' = IF lack THEN exitPc ELSE llmPc
        /\ obs' = [obs EXCEPT !.checks = IF @ < 2 THEN @ + 1 ELSE @,
                              !.skippedAtEntry = IF obs.checks = 0 THEN lack ELSE @,
                              !.iterExc = NoExc]
        /\ UNCHANGED <<intake, llmClient, writer, db, now, env, remoteRepos, git, result, itersThisTick>>

R1DeadlineCheck ==
    /\ pc = "r1_check"
    /\ DeadlineCheck(ROUND_01_TIMEOUT_SECONDS, ROUND_01_BUFFER_TIME_REQUIRED,
                     "r1_llm", "r1_archive")

R2DeadlineCheck ==
    /\ pc = "r2_check"
    /\ DeadlineCheck(ROUND_02_TIMEOUT_SECONDS, ROUND_02_BUFFER_TIME_REQUIRED,
                     "r2_llm", "r2_wait")

(* ------------------------------------------------------------------ *)
(* One iteration of the LLM loop: task_handler.py lines 115-153         *)
(* (round 1) and 252-290 (round 2).                                     *)
(* ------------------------------------------------------------------ *)
\* The text the LLM client returns: malformed markup, or a container whose
\* entries are `files` (json.dumps of the paths written), with or without a
\* commit_message entry; `changes` says the files written differ from HEAD.
LlmOutputs ==
    {[wellFormed |-> FALSE, commit_message |-> NULL, files |-> "[]", changes |-> FALSE]}
    \cup {[wellFormed |-> TRUE, commit_message |-> m, files |-> fc[1], changes |-> fc[2]] :
            m \in {NULL, "feat: generated app"},
            fc \in {<<"[]", FALSE>>, <<"[index.html]", FALSE>>, <<"[index.html]", TRUE>>}}

\* Where an iteration may fail for a reason outside the program: building the
\* prompt, the LLM call, writing the raw output, writing a file, a database
\* write.
IterFailures ==
    {"prompt", "llm", "save", "persist_path", "materialize", "persist_files", "persist_hash"}

DbError == Exc("sqlite3.OperationalError", "database is locked")

\* The external behaviours of one iteration: a failure before the output is
\* used (whatever the output), a database failure after it was materialized,
\* or none, with every output and every behaviour of git.
IterationBehaviours ==
    {[fail |-> f, out |-> CHOOSE o \in LlmOutputs : ~o.wellFormed, gitExt |-> "ok"] :
        f \in {"prompt", "llm", "save", "persist_path"}}
    \cup {[fail |-> f, out |-> o, gitExt |-> "ok"] :
        f \in {"materialize", "persist_files", "persist_hash"},
        o \in {x \in LlmOutputs : x.wellFormed}}
    \cup {[fail |-> "none", out |-> o, gitExt |-> g] : o \in LlmOutputs, g \in GitOutcomes}

\* Variant: the round-2 prompt is built without the stored round-1 output.
Round1OutputMissing_Tolerated(round, row) == FALSE

\* construct_user_prompt_for_round_02 opens the file named by the record's
\* round1_llm_output_path (openai_llm_utils.py 310); with the column NULL the
\* name is "None" and open raises FileNotFoundError.
Round1OutputMissing(round, row) == round = 2 /\ row.round1_llm_output_path = NULL

\* [db, git, exc, llmCalled]: the try block of the iteration, run on store and
\* checkout g at time t with external behaviour fail / out / gitExt.
LlmIteration(round, store, g, path, token, fail, out, gitExt, t) ==
    LET row == store[TaskId]
        stop(st, gg, e, called) == [db |-> st, git |-> gg, exc |-> e, llmCalled |-> called]
        outputPath == path \o "/.llm_output_round_" \o ToStr(round) \o ".txt"
        s1 == upsert_task(store, TaskId, [llm_output_path |-> outputPath], t)
        s2 == IF out.commit_message # NULL
              THEN upsert_task(s1, TaskId, [commit_message |-> out.commit_message], t)
              ELSE s1
        g1 == [g EXCEPT !.dirty = g.dirty \/ out.changes]
        s3 == upsert_task(s2, TaskId, [created_files |-> out.files], t)
        push == git_commit_and_push(g1, token, s3[TaskId].commit_message, gitExt)
        s4 == upsert_task(s3, TaskId, [commit_hash |-> push.ret], t)
    IN  IF fail = "prompt"
        THEN stop(store, g, Exc("Exception", "prompt construction failed"), FALSE)
        ELSE IF Round1OutputMissing(round, row)
        THEN stop(store, g, Exc("FileNotFoundError", "None"), FALSE)
        ELSE IF fail = "llm"
        THEN stop(store, g, Exc("requests.HTTPError", "LLM endpoint failed"), TRUE)
        ELSE IF path = NULL
        THEN stop(store, g, Exc("TypeError", "expected str, not NoneType"), TRUE)
        ELSE IF fail = "save"
        THEN stop(store, g, Exc("OSError", "cannot write the raw output"), TRUE)
        ELSE IF fail = "persist_path"
        THEN stop(store, g, DbError, TRUE)
        ELSE IF ~out.wellFormed
        THEN stop(s1, g, Exc("ParseError", "not well-formed"), TRUE)
        ELSE IF fail = "materialize"
        THEN stop(s1, g, Exc("OSError", "cannot write a file"), TRUE)
        ELSE IF fail = "persist_files"
        THEN stop(s2, g1, DbError, TRUE)
        ELSE IF push.exc # NoExc
        THEN stop(s3, push.git, push.exc, TRUE)
        ELSE IF fail = "persist_hash"
        THEN stop(s3, push.git, DbError, TRUE)
        ELSE stop(s4, push.git, NoExc, TRUE)

\* Variant: the loop's except clause names the classes of lines 82-86.
LoopCaught_Named == {"OSError", "RuntimeError", "ValueError", "CalledProcessError"}

\* The classes `except Exception` catches, lines 150 and 287.
LoopCaught == {"Exception"}

\* Variant: no `break` after a successful iteration.
LoopNextPc_NoBreak(exc, checkPc, exitPc) ==
    IF exc = NoExc THEN checkPc
    ELSE IF Catches({"Exception"}, exc) THEN checkPc
    ELSE "done"

\* Where control goes after the try block: `break` on success, `continue` to
\* the deadline check on a caught exception, out of the handler otherwise.
LoopNextPc(exc, checkPc, exitPc) ==
    IF exc = NoExc THEN exitPc
    ELSE IF Catches(LoopCaught, exc) THEN checkPc
    ELSE "done"

\* The try block together with its break and its except clause.
LlmLoopBody(round, checkPc, exitPc) ==
    /\ itersThisTick < MaxItersPerTick
    /\ \E ext \in IterationBehaviours :
        LET r == LlmIteration(round, db, git, frame.complete_repo_path, env.githubToken,
                              ext.fail, ext.out, ext.gitExt, now)
        IN  /\ db' = r.db
            /\ git' = r.git
            /\ pc' = LoopNextPc(r.exc, checkPc, exitPc)
            /\ result' = IF LoopNextPc(r.exc, checkPc, exitPc) = "done"
                         THEN Uncaught(r.exc)
                         ELSE result
            /\ obs' = [obs EXCEPT
                        !.llmCalls = IF r.llmCalled THEN @ + 1 ELSE @,
                        !.succIters = IF r.exc = NoExc THEN @ + 1 ELSE @,
                        !.iterFailed = @ \/ r.exc # NoExc,
                        !.iterExc = r.exc]
    /\ itersThisTick' = itersThisTick + 1
    /\ UNCHANGED <<intake, llmClient, writer, now, env, remoteRepos, frame>>

R1LlmIteration ==
    /\ pc = "r1_llm"
    /\ LlmLoopBody(1, "r1_check", "r1_archive")

R2LlmIteration ==
    /\ pc = "r2_llm"
    /\ LlmLoopBody(2, "r2_check", "r2_wait")

(* ------------------------------------------------------------------ *)
(* Round-1 archival: task_handler.py lines 155-158.                     *)
(* ------------------------------------------------------------------ *)
\* Variant: the archival is run a second time before the wait.
R1Archive_Twice ==
    /\ pc = "r1_archive"
    /\ \E dbok \in BOOLEAN :
        /\ db' = IF dbok THEN archive_task_round_01(db, TaskId, now) ELSE db
        /\ obs' = [obs EXCEPT !.archiveCalls = @ + 1, !.archiveFailed = ~dbok]
    /\ pc' = IF obs.archiveCalls = 0 THEN "r1_archive" ELSE "r1_wait"
    /\ UNCHANGED <<intake, llmClient, writer, now, env, remoteRepos, git, frame, result, itersThisTick>>

\* Variant: an archival whose failure is not caught and ends the run.
R1Archive_Fatal ==
    /\ pc = "r1_archive"
    /\ \E dbok \in BOOLEAN :
        /\ db' = IF dbok THEN archive_task_round_01(db, TaskId, now) ELSE db
        /\ obs' = [obs EXCEPT !.archiveCalls = @ + 1, !.archiveFailed = ~dbok]
        /\ pc' = IF dbok THEN "r1_wait" ELSE "done"
        /\ result' = IF dbok THEN result ELSE Uncaught(DbError)
    /\ UNCHANGED <<intake, llmClient, writer, now, env, remoteRepos, git, frame, itersThisTick>>

R1Archive ==
    /\ pc = "r1_archive"
    /\ \E dbok \in BOOLEAN :
        /\ db' = IF dbok THEN archive_task_round_01(db, TaskId, now) ELSE db
        /\ obs' = [obs EXCEPT !.archiveCalls = @ + 1, !.archiveFailed = ~dbok]
    /\ pc' = "r1_wait"
    /\ UNCHANGED <<intake, llmClient, writer, now, env, remoteRepos, git, frame, result, itersThisTick>>

(* ------------------------------------------------------------------ *)
(* The wait for the pages build: task_handler.py lines 186-193          *)
(* (round 1) and 319-325 (round 2).                                     *)
(* ------------------------------------------------------------------ *)
PagesWait(timeout, buffer, nextPc) ==
    LET time_elapsed == now - frame.task_created_at
        time_left == timeout - time_elapsed
    IN  /\ now' = IF PAGES_BUILD_TIME_ESTIMATE + buffer > time_left
                  THEN now
                  ELSE now + PAGES_BUILD_TIME_ESTIMATE
        /\ frame' = [frame EXCEPT !.time_elapsed = time_elapsed, !.time_left = time_left]
        /\ pc' = nextPc
        /\ UNCHANGED <<intake, llmClient, writer, db, env, remoteRepos, git, result, itersThisTick, obs>>

R1PagesWait ==
    /\ pc = "r1_wait"
    /\ PagesWait(ROUND_01_TIMEOUT_SECONDS, ROUND_01_BUFFER_TIME_REQUIRED, "r1_notify")

R2PagesWait ==
    /\ pc = "r2_wait"
    /\ PagesWait(ROUND_02_TIMEOUT_SECONDS, ROUND_02_BUFFER_TIME_REQUIRED, "r2_notify")

(* ------------------------------------------------------------------ *)
(* Completion notifier: external_api.py lines 6-17 and 34-63, and its   *)
(* call in task_handler.py lines 195-206 (round 1), 327-338 (round 2).  *)
(* ------------------------------------------------------------------ *)
\* exponential_backoff_retry's defaults.
max_retries == 20
initial_delay == 1
backoff_factor == 2

\* The attempt at which the evaluation service first answers 2xx; 0: never.
FirstSuccessChoices == {0, 1, max_retries}

\* Seconds slept before attempt number n + 1: the delays after n failures.
RECURSIVE SleptAfter(_)
SleptAfter(n) == IF n = 0 THEN 0 ELSE SleptAfter(n - 1) + initial_delay * backoff_factor ^ (n - 1)

\* Variant: a retry helper that goes on calling after a call has succeeded.
exponential_backoff_retry_NoStop(firstSuccess) ==
    [posts |-> max_retries, slept |-> SleptAfter(max_retries - 1),
     ok |-> firstSuccess \in 1..max_retries]

\* Iteration `attempt` of `for attempt in range(max_retries)`, entered with
\* the current delay and the seconds slept so far: the call succeeds and its
\* value is returned, or it fails and the last iteration re-raises, or it
\* fails and the loop sleeps, multiplies the delay and goes round.
RECURSIVE RetryLoop(_, _, _, _)
RetryLoop(attempt, delay, slept, firstSuccess) ==
    IF attempt + 1 = firstSuccess
    THEN [posts |-> attempt + 1, slept |-> slept, ok |-> TRUE]
    ELSE IF attempt = max_retries - 1
    THEN [posts |-> attempt + 1, slept |-> slept, ok |-> FALSE]
    ELSE RetryLoop(attempt + 1, delay * backoff_factor, slept + delay, firstSuccess)

\* [posts, slept, ok]: the POSTs made, the seconds slept, whether one succeeded.
exponential_backoff_retry(firstSuccess) == RetryLoop(0, initial_delay, 0, firstSuccess)

Notify(message) ==
    /\ \E firstSuccess \in FirstSuccessChoices :
        LET r == exponential_backoff_retry(firstSuccess) IN
        /\ now' = now + r.slept
        /\ obs' = [obs EXCEPT !.notifyCalls = @ + 1, !.posts = @ + r.posts,
                              !.postOkAt = firstSuccess]
        /\ result' = IF r.ok THEN Returned(message)
                     ELSE HTTPException(502, "Failed to notify evaluation service: HTTPError")
    /\ pc' = "done"
    /\ UNCHANGED <<intake, llmClient, writer, db, env, remoteRepos, git, frame, itersThisTick>>

R1Notify ==
    /\ pc = "r1_notify"
    /\ Notify("Repository " \o frame.repo_name \o " created successfully.")

R2Notify ==
    /\ pc = "r2_notify"
    /\ Notify("Repository " \o frame.repo_name \o " updated successfully.")

(* ------------------------------------------------------------------ *)
(* handle_round_02 up to its LLM loop: task_handler.py lines 219-241.   *)
(* ------------------------------------------------------------------ *)
\* The classes the except clause of lines 237-241 names.
AttachmentsCaught == {"OSError", "RuntimeError", "ValueError", "CalledProcessError"}

\* [git, commit_sha, pushed, exc]: saving the round's attachments in the
\* checkout and pushing them; `changes` says they differ from HEAD.
round2_attachments(row, g, token, changes, gitExt) ==
    LET written == [g EXCEPT !.dirty = g.dirty \/ changes]
        push == git_commit_and_push(written, token,
                    "Add additional attachments for round 2", gitExt)
    IN  IF row.attachments = "[]"
        THEN [git |-> g, commit_sha |-> NULL, pushed |-> FALSE, exc |-> NoExc]
        ELSE IF row.repo_local_path = NULL
        THEN [git |-> g, commit_sha |-> NULL, pushed |-> FALSE,
              exc |-> Exc("TypeError", "expected str, not NoneType")]
        ELSE IF row.attachments = "[not-a-data-uri]"
        THEN [git |-> g, commit_sha |-> NULL, pushed |-> FALSE,
              exc |-> Exc("ValueError", "Attachment is not a valid data URI.")]
        ELSE [git |-> push.git, commit_sha |-> push.ret, pushed |-> TRUE, exc |-> push.exc]

R2Attachments ==
    /\ pc = "r2_attach"
    /\ \E changes \in BOOLEAN, gitExt \in GitOutcomes, dbok \in BOOLEAN :
        LET row == db[TaskId]
            r == round2_attachments(row, git, env.githubToken, changes, gitExt)
            exc == IF r.exc # NoExc THEN r.exc
                   ELSE IF r.pushed /\ ~dbok THEN DbError
                   ELSE NoExc
        IN  /\ git' = r.git
            /\ db' = IF exc = NoExc /\ r.pushed
                     THEN upsert_task(db, TaskId, [commit_hash |-> r.commit_sha], now)
                     ELSE db
            /\ frame' = [frame EXCEPT
                            !.complete_repo_path = row.repo_local_path,
                            !.repo_name = row.repo_name,
                            !.task_created_at = row.created_at]
            /\ pc' = IF exc = NoExc THEN "r2_check" ELSE "done"
            /\ result' =
                 IF exc = NoExc THEN result
                 ELSE IF Catches(AttachmentsCaught, exc)
                 THEN HTTPException(500, "Failed to add attachments for round 2: " \o exc.msg)
                 ELSE Uncaught(exc)
    /\ UNCHANGED <<intake, llmClient, writer, now, env, remoteRepos, itersThisTick, obs>>

(* ------------------------------------------------------------------ *)
(* submit_task: main.py lines 63-109.                                   *)
(* ------------------------------------------------------------------ *)
\* Variant: the dictionary holds the request fields only.
SubmitData_ColumnsOnly(r, att, t) == RequestData(r, att, t)

\* The dictionary submit_task hands to upsert_task, lines 81-94.
SubmitData(r, att, t) ==
    [c \in DOMAIN RequestData(r, att, t) \cup {"status", "result", "error_message"} |->
        IF c = "status" THEN "pending"
        ELSE IF c \in {"result", "error_message"} THEN NULL
        ELSE RequestData(r, att, t)[c]]

\* Variant: the store takes whatever dictionary the intake hands over.
submit_task_Stores(secretConfigured, secretOk, data) ==
    IF ~secretConfigured
    THEN [status_code |-> 500, detail |-> "Server misconfiguration: missing shared secret.",
          stored |-> FALSE]
    ELSE IF ~secretOk
    THEN [status_code |-> 401, detail |-> "Invalid secret.", stored |-> FALSE]
    ELSE [status_code |-> 200, detail |-> "Task accepted and processing started.",
          stored |-> TRUE]

\* [status_code, detail, stored]: the response to a submission of round r.
submit_task(secretConfigured, secretOk, data) ==
    IF ~secretConfigured
    THEN [status_code |-> 500, detail |-> "Server misconfiguration: missing shared secret.",
          stored |-> FALSE]
    ELSE IF ~secretOk
    THEN [status_code |-> 401, detail |-> "Invalid secret.", stored |-> FALSE]
    ELSE IF ~UpsertAccepted(data)
    THEN [status_code |-> 500, detail |-> "Failed to record task in database.",
          stored |-> FALSE]
    ELSE [status_code |-> 200, detail |-> "Task accepted and processing started.",
          stored |-> TRUE]

\* submit_task answers a submission of round r made at the current time.
\* `scheduled` holds the round of every submission for which a background
\* task running handle_llm_task was added (line 104).
Submit(r, secretConfigured, secretOk) ==
    LET data == SubmitData(r, "[]", now)
        resp == submit_task(secretConfigured, secretOk, data)
    IN  /\ db' = IF resp.stored THEN upsert_task(db, TaskId, data, now) ELSE db
        /\ intake' = [submitted |-> intake.submitted + 1,
                      status_code |-> resp.status_code,
                      detail |-> resp.detail,
                      scheduled |-> IF resp.stored THEN intake.scheduled \cup {r}
                                    ELSE intake.scheduled]
        /\ UNCHANGED <<llmClient, writer, now, env, remoteRepos, git, pc, frame, result,
                       itersThisTick, obs>>

\* A submission for the task id arrives, at any moment of the worker's run.
SubmitTask ==
    /\ intake.submitted < MaxSubmissions
    /\ \E r \in {1, 2}, secretConfigured \in BOOLEAN, secretOk \in BOOLEAN :
        Submit(r, secretConfigured, secretOk)

\* A round-2 submission with the correct secret arrives for the task id while
\* its round 1 is being processed and has not been archived yet.
SubmitRound2DuringRound1 ==
    /\ intake.submitted < MaxSubmissions
    /\ pc \in {"r1_create", "r1_setup", "r1_pages", "r1_check", "r1_llm", "r1_archive"}
    /\ Submit(2, TRUE, TRUE)

(* ------------------------------------------------------------------ *)
(* The LLM client: app/openai_llm_utils.py lines 13-125.  Text is a    *)
(* sequence of characters.                                              *)
(* ------------------------------------------------------------------ *)
Whitespace == {" ", "\n", "\t"}

\* str.strip(), line 125.
RECURSIVE lstrip(_)
lstrip(s) == IF s # <<>> /\ Head(s) \in Whitespace THEN lstrip(Tail(s)) ELSE s

RECURSIVE rstrip(_)
rstrip(s) ==
    IF s # <<>> /\ s[Len(s)] \in Whitespace THEN rstrip(SubSeq(s, 1, Len(s) - 1)) ELSE s

strip(s) == rstrip(lstrip(s))

\* str.lower() on the status markers that occur.
Lower(s) == IF s = "Completed" THEN "completed" ELSE s

\* The conversation built at lines 73-92 and the turn built at lines 110-116.
Conversation ==
    <<[role |-> "system", text |-> "system_prompt"],
      [role |-> "user", text |-> "user_prompt"]>>

ContinueTurn == [role |-> "user", text |-> "Please continue exactly where you left off."]

\* The text pieces the endpoint may put in an output block.
Chunks == {<<"a">>, <<" ", "b", "\n">>}

\* The output blocks of a response: one block of either status, or two blocks
\* of which one is cut short, or one block whose marker is capitalised.
OutputChoices ==
    {<<[status |-> st, text |-> ch]>> : st \in {"completed", "incomplete"}, ch \in Chunks}
    \cup {<<[status |-> "completed", text |-> <<"a">>],
            [status |-> "incomplete", text |-> <<"d">>]>>,
          <<[status |-> "incomplete", text |-> <<"a">>],
            [status |-> "completed", text |-> <<"d">>]>>,
          <<[status |-> "Completed", text |-> <<"e">>]>>}

\* What the i-th call of call_response_api may give: a JSON body, or an
\* exception of requests.post / raise_for_status (lines 34-35).
ResponseChoices(i) ==
    {[kind |-> "error", id |-> NULL, output |-> <<>>]}
    \cup {[kind |-> "json", id |-> "resp_" \o ToStr(i), output |-> o] : o \in OutputChoices}

\* Variant of FirstStatus: the first marker that is not "completed", if any.
RECURSIVE FirstStatus_AnyIncomplete(_)
FirstStatus_AnyIncomplete(blocks) ==
    IF blocks = <<>> THEN NULL
    ELSE IF Lower(Head(blocks).status) # "completed" THEN Head(blocks).status
    ELSE IF Tail(blocks) = <<>> THEN Head(blocks).status
    ELSE FirstStatus_AnyIncomplete(Tail(blocks))

\* `finish_reason = finish_reason or block.get("status")` over the blocks,
\* line 51: the first marker that is set.
RECURSIVE FirstStatus(_)
FirstStatus(blocks) ==
    IF blocks = <<>> THEN NULL
    ELSE IF Head(blocks).status # NULL THEN Head(blocks).status
    ELSE FirstStatus(Tail(blocks))

\* "".join(text_chunks), line 56.
RECURSIVE JoinText(_)
JoinText(blocks) ==
    IF blocks = <<>> THEN <<>> ELSE Head(blocks).text \o JoinText(Tail(blocks))

\* extract_text_and_finish_reason, lines 39-56.
extract_text_and_finish_reason(response_json) ==
    [response_id |-> response_json.id,
     chunk |-> JoinText(response_json.output),
     finish_reason |-> FirstStatus(response_json.output)]

\* The request body call_response_api posts, lines 22-29.
RequestPayload(conversation, response_id) ==
    [input |-> conversation, previous_response_id |-> response_id]

\* `if finish_reason and finish_reason.lower() != "completed"`, line 108.
Truncated(finish_reason) == finish_reason # NULL /\ Lower(finish_reason) # "completed"

\* The responses the endpoint would give to the first n calls.
RECURSIVE Scripts(_)
Scripts(n) ==
    IF n = 0 THEN {<<>>}
    ELSE {Append(sc, r) : sc \in Scripts(n - 1), r \in ResponseChoices(n)}

\* Variant: one pass more than the ceiling allows.
LoopCondition_OneMore(continuation_attempts, ceiling) ==
    continuation_attempts <= ceiling + 1

\* `while continuation_attempts <= openai_max_continuations`, line 99.
LoopCondition(continuation_attempts, ceiling) == continuation_attempts <= ceiling

\* The loop condition is false: control passes to line 121.
LlmLoopEnd ==
    /\ llmClient.pc = "loop"
    /\ ~LoopCondition(llmClient.continuation_attempts, llmClient.ceiling)
    /\ llmClient' = [llmClient EXCEPT !.pc = "after"]
    /\ UNCHANGED <<intake, writer, db, now, env, remoteRepos, git, pc, frame, result, itersThisTick, obs>>

\* Variant: a failed call is answered by calling again.
LlmCall_RetryTransport ==
    /\ llmClient.pc = "loop"
    /\ LoopCondition(llmClient.continuation_attempts, llmClient.ceiling)
    /\ LET request == RequestPayload(Conversation, llmClient.response_id)
           response == llmClient.script[Len(llmClient.requests) + 1]
           x == extract_text_and_finish_reason(response)
       IN  IF response.kind = "error"
           THEN llmClient' = [llmClient EXCEPT !.requests = Append(@, request),
                                   !.continuation_attempts = @ + 1]
           ELSE llmClient' = [llmClient EXCEPT
                          !.requests = Append(@, request),
                          !.response_id = x.response_id,
                          !.finish_reason = x.finish_reason,
                          !.full_text = @ \o x.chunk,
                          !.continuation_attempts =
                              IF Truncated(x.finish_reason) THEN @ + 1 ELSE @,
                          !.new_conversation =
                              IF Truncated(x.finish_reason) THEN <<ContinueTurn>> ELSE @,
                          !.pc = IF Truncated(x.finish_reason) THEN "loop" ELSE "after"]
    /\ UNCHANGED <<intake, writer, db, now, env, remoteRepos, git, pc, frame, result, itersThisTick, obs>>

\* One pass of the loop body, lines 100-120.
LlmCall ==
    /\ llmClient.pc = "loop"
    /\ LoopCondition(llmClient.continuation_attempts, llmClient.ceiling)
    /\ LET request == RequestPayload(Conversation, llmClient.response_id)
           response == llmClient.script[Len(llmClient.requests) + 1]
           x == extract_text_and_finish_reason(response)
       IN  IF response.kind = "error"
           THEN llmClient' = [llmClient EXCEPT !.requests = Append(@, request), !.pc = "raised"]
           ELSE llmClient' = [llmClient EXCEPT
                          !.requests = Append(@, request),
                          !.response_id = x.response_id,
                          !.finish_reason = x.finish_reason,
                          !.full_text = @ \o x.chunk,
                          !.continuation_attempts =
                              IF Truncated(x.finish_reason) THEN @ + 1 ELSE @,
                          !.new_conversation =
                              IF Truncated(x.finish_reason) THEN <<ContinueTurn>> ELSE @,
                          !.pc = IF Truncated(x.finish_reason) THEN "loop" ELSE "after"]
    /\ UNCHANGED <<intake, writer, db, now, env, remoteRepos, git, pc, frame, result, itersThisTick, obs>>

\* Variant: the text is returned as accumulated.
LlmReturn_NoStrip ==
    /\ llmClient.pc = "after"
    /\ llmClient' = [llmClient EXCEPT !.pc = "returned", !.ret = llmClient.full_text]
    /\ UNCHANGED <<intake, writer, db, now, env, remoteRepos, git, pc, frame, result, itersThisTick, obs>>

\* Lines 121-125.
LlmReturn ==
    /\ llmClient.pc = "after"
    /\ llmClient' = [llmClient EXCEPT !.pc = "returned", !.ret = strip(llmClient.full_text)]
    /\ UNCHANGED <<intake, writer, db, now, env, remoteRepos, git, pc, frame, result, itersThisTick, obs>>

(* ------------------------------------------------------------------ *)
(* Materialising the LLM output: app/xml_utils.py lines 15-79 and the   *)
(* use of its result at task_handler.py lines 130-138.  A path is the   *)
(* sequence of its components.                                          *)
(* ------------------------------------------------------------------ *)
\* str(path): the components joined by "/".
RECURSIVE PathStr(_)
PathStr(path) ==
    IF Len(path) = 1 THEN path[1]
    ELSE PathStr(SubSeq(path, 1, Len(path) - 1)) \o "/" \o path[Len(path)]

\* Path.name, lines 56, 60 and 65.
PathName(path) == path[Len(path)]

\* str.strip() on the element texts that occur, line 35.
StripText(s) ==
    CASE s = "\n<html></html>\n" -> "<html></html>"
      [] s = "\nfeat: generated app\n" -> "feat: generated app"
      [] OTHER -> s

\* base64.b64decode on the contents that occur, line 70.
b64decode(s) == CASE s = "aGk=" -> "hi" [] OTHER -> s

\* The file content of lines 69-72.
FileContent(details) ==
    IF details.encoding = "base64" THEN b64decode(details.content) ELSE details.content

\* The <file> elements the LLM output may hold.
ElementChoices ==
    {[path |-> <<"index.html">>, text |-> "\n<html></html>\n", encoding |-> NULL],
     [path |-> <<"LICENSE">>, text |-> "GPL", encoding |-> NULL],
     [path |-> <<"docs", "LICENSE">>, text |-> "GPL", encoding |-> NULL],
     [path |-> <<"commit_message">>, text |-> "\nfeat: generated app\n", encoding |-> NULL],
     [path |-> <<"assets", "logo.png">>, text |-> "aGk=", encoding |-> "base64"]}

\* Sequences of at most n elements.
RECURSIVE ElementLists(_)
ElementLists(n) ==
    IF n = 0 THEN {<<>>}
    ELSE ElementLists(n - 1) \cup
         {Append(l, e) : l \in {x \in ElementLists(n - 1) : Len(x) = n - 1}, e \in ElementChoices}

\* What files_parse yields for an element, lines 29-42.
files_parse(elem) ==
    [path |-> elem.path, content |-> StripText(elem.text), encoding |-> elem.encoding]

\* json.dumps of a list of strings.
RECURSIVE JsonItems(_)
JsonItems(l) ==
    IF l = <<>> THEN ""
    ELSE IF Len(l) = 1 THEN "\"" \o l[1] \o "\""
    ELSE JsonItems(SubSeq(l, 1, Len(l) - 1)) \o ", \"" \o l[Len(l)] \o "\""

JsonDumps(l) == "[" \o JsonItems(l) \o "]"

\* The work tree write_instructions leaves (github_utils.py lines 142-160):
\* the files an entry can collide with.
SeededTree ==
    [p \in {"index.html", "LICENSE"} |->
        IF p = "LICENSE" THEN "MIT License" ELSE "<h1>Hello, World!</h1>\n"]

\* Variant: no entry is skipped as the license.
SkippedAsLicense_Never(path) == FALSE

\* `if file_path.name == "LICENSE"`, line 56.
SkippedAsLicense(path) == PathName(path) = "LICENSE"

\* `if file_path.name == "commit_message"`, line 60.
IsCommitMessage(path) == PathName(path) = "commit_message"

\* additional_exclude_files as passed at task_handler.py lines 134 and 271.
additional_exclude_files == {}

\* Variant: the newest path is put first.
Recorded_Newest(created_files, file_path_relative) ==
    <<file_path_relative>> \o created_files

\* `created_files.append(str(file_path_relative))`, line 76.
Recorded(created_files, file_path_relative) == Append(created_files, file_path_relative)

\* Variant: the parser hands out each element as soon as it is complete.
WriterOpen_Streaming ==
    /\ writer.pc = "open"
    /\ writer' = [writer EXCEPT !.pc = "loop"]
    /\ UNCHANGED <<intake, llmClient, db, now, env, remoteRepos, git, pc, frame, result,
                   itersThisTick, obs>>

\* Reading and parsing the saved output, lines 47 and 27: ET.fromstring
\* parses the whole text before the generator yields its first element.
WriterOpen ==
    /\ writer.pc = "open"
    /\ writer' = [writer EXCEPT !.pc = IF writer.wellFormed THEN "loop" ELSE "raised"]
    /\ UNCHANGED <<intake, llmClient, db, now, env, remoteRepos, git, pc, frame, result,
                   itersThisTick, obs>>

\* One pass of the loop, lines 47-77, on element i.  `wrote` lists the paths
\* written, in the order of the writes.
WriterEntry ==
    /\ writer.pc = "loop"
    /\ writer.i <= Len(writer.elements)
    /\ \E dbok \in BOOLEAN, ioOk \in BOOLEAN :
        LET file_details == files_parse(writer.elements[writer.i])
            path == file_details.path
            file_path_relative == PathStr(path)
            made == [writer EXCEPT
                        !.dirs = IF Len(path) > 1
                                 THEN @ \cup {PathStr(SubSeq(path, 1, Len(path) - 1))}
                                 ELSE @]
        IN  IF SkippedAsLicense(path)
            THEN /\ writer' = [made EXCEPT !.i = @ + 1]
                 /\ db' = db
            ELSE IF IsCommitMessage(path)
            THEN IF dbok
                 THEN /\ db' = upsert_task(db, TaskId,
                                    [commit_message |-> file_details.content], now)
                      /\ writer' = [made EXCEPT !.i = @ + 1]
                 ELSE /\ db' = db
                      /\ writer' = [made EXCEPT !.pc = "raised"]
            ELSE IF PathName(path) \in additional_exclude_files
            THEN /\ writer' = [made EXCEPT !.i = @ + 1]
                 /\ db' = db
            ELSE IF ioOk
            THEN /\ writer' = [made EXCEPT
                                !.tree = (file_path_relative :> FileContent(file_details)) @@ @,
                                !.wrote = Append(@, file_path_relative),
                                !.created_files = Recorded(@, file_path_relative),
                                !.i = @ + 1]
                 /\ db' = db
            ELSE /\ writer' = [made EXCEPT !.pc = "raised"]
                 /\ db' = db
    /\ UNCHANGED <<intake, llmClient, now, env, remoteRepos, git, pc, frame, result,
                   itersThisTick, obs>>

\* `return created_files`, line 79.
WriterReturn ==
    /\ writer.pc = "loop"
    /\ writer.i > Len(writer.elements)
    /\ writer' = [writer EXCEPT !.pc = "returned", !.ret = writer.created_files]
    /\ UNCHANGED <<intake, llmClient, db, now, env, remoteRepos, git, pc, frame, result,
                   itersThisTick, obs>>

\* The caller records the list, task_handler.py lines 136-138 and 273-275.
WriterStore ==
    /\ writer.pc = "returned"
    /\ \E dbok \in BOOLEAN :
        IF dbok
        THEN /\ db' = upsert_task(db, TaskId, [created_files |-> JsonDumps(writer.ret)], now)
             /\ writer' = [writer EXCEPT !.pc = "stored"]
        ELSE /\ db' = db
             /\ writer' = [writer EXCEPT !.pc = "raised"]
    /\ UNCHANGED <<intake, llmClient, now, env, remoteRepos, git, pc, frame, result,
                   itersThisTick, obs>>

(* ------------------------------------------------------------------ *)
(* Specification.                                                       *)
(* ------------------------------------------------------------------ *)
Worker ==
    \/ HandleLlmTask
    \/ R1CreateRepo
    \/ R1SetupLocalRepo
    \/ R1EnablePages
    \/ R1DeadlineCheck
    \/ R1LlmIteration
    \/ R1Archive
    \/ R1PagesWait
    \/ R1Notify
    \/ R2Attachments
    \/ R2DeadlineCheck
    \/ R2LlmIteration
    \/ R2PagesWait
    \/ R2Notify

Next == Tick \/ Worker

Spec == Init /\ [][Next]_vars

\* The worker is scheduled while it has a step to take, and wall-clock time
\* keeps advancing.
FairSpec == Spec /\ WF_vars(Worker) /\ WF_vars(Tick)

\* The application process starts again: lifespan (main.py 27-33) runs
\* initialize_db, whose first statement drops the tasks table before creating
\* it anew (database_utils.py 33-34).  A background task of the previous
\* process does not survive, and nothing schedules one at start-up.
Restart ==
    /\ pc # "down"
    /\ HasTask(db, TaskId)
    /\ db' = EmptyStore
    /\ pc' = "down"
    /\ frame' = NoFrame
    /\ result' = NoResult
    /\ UNCHANGED <<intake, llmClient, writer, now, env, remoteRepos, git, itersThisTick, obs>>

RestartNext == Next \/ Restart

\* The worker on a host whose application process may be started again at
\* any moment.
RestartSpec == Init /\ [][RestartNext]_vars

\* The LLM client alone: request_llm_and_get_output is called with a
\* continuation ceiling (OPENAI_MAX_CONTINUATIONS) against an endpoint whose
\* responses are scripted, one more than the client can ask for.
LlmInit ==
    /\ db = EmptyStore
    /\ now = 0
    /\ env = [llmApprox |-> 270, githubToken |-> TRUE]
    /\ remoteRepos = {}
    /\ git = NoCheckout
    /\ pc = "idle"
    /\ frame = NoFrame
    /\ result = NoResult
    /\ itersThisTick = 0
    /\ obs = NoObs
    /\ intake = NoIntake
    /\ writer = NoWriter
    /\ \E ceiling \in 0..MaxCeiling :
         \E script \in Scripts(ceiling + 2) :
            llmClient = [NoLlm EXCEPT !.pc = "loop", !.script = script, !.ceiling = ceiling]

LlmNext == LlmCall \/ LlmLoopEnd \/ LlmReturn

LlmSpec == LlmInit /\ [][LlmNext]_vars

\* create_files_from_response alone, called by an LLM-loop iteration on a
\* seeded checkout with an output of at most MaxElements <file> elements,
\* well-formed or broken somewhere after the elements listed (an unclosed
\* tag, text after the root), followed by the caller's write of the result.
WriterInit ==
    /\ db = upsert_task(EmptyStore, TaskId, RequestData(1, "[]", 0), 0)
    /\ now = 0
    /\ env = [llmApprox |-> 270, githubToken |-> TRUE]
    /\ remoteRepos = {}
    /\ git = NoCheckout
    /\ pc = "idle"
    /\ frame = NoFrame
    /\ result = NoResult
    /\ itersThisTick = 0
    /\ obs = NoObs
    /\ intake = NoIntake
    /\ llmClient = NoLlm
    /\ \E wellFormed \in BOOLEAN, elements \in ElementLists(MaxElements) :
            writer = [NoWriter EXCEPT !.pc = "open", !.wellFormed = wellFormed,
                                      !.elements = elements, !.tree = SeededTree]

WriterNext == WriterOpen \/ WriterEntry \/ WriterReturn \/ WriterStore

WriterSpec == WriterInit /\ [][WriterNext]_vars

\* The worker together with the intake: submissions for the task id arrive
\* while the worker runs.  The environment is fixed (credential present, one
\* LLM time estimate) and the records carry no attachment.
IntakeInit ==
    /\ Init
    /\ env = [llmApprox |-> 270, githubToken |-> TRUE]
    /\ HasTask(db, TaskId) => db[TaskId].attachments = "[]"

IntakeNext == Next \/ SubmitTask

IntakeSpec == IntakeInit /\ [][IntakeNext]_vars

ResubmitNext == Next \/ SubmitRound2DuringRound1

\* The worker, with round-2 submissions arriving only during round 1.
ResubmitSpec == IntakeInit /\ [][ResubmitNext]_vars

(* ================================================================== *)
(* Properties.                                                          *)
(* ================================================================== *)
LoopPcs == {"r1_check", "r1_llm", "r2_check", "r2_llm"}
LlmPcs == {"r1_llm", "r2_llm"}
AfterLoopPcs == {"r1_archive", "r1_wait", "r1_notify", "r2_wait", "r2_notify", "done"}

\* The run has ended with an error.
EndedInError == result.kind \in {"HTTPException", "uncaught"}

\* The deadline condition of the round whose loop is at pc `p`, evaluated now.
EnoughTimeNow(p) ==
    IF p = "r1_check"
    THEN env.llmApprox + ROUND_01_BUFFER_TIME_REQUIRED
            <= ROUND_01_TIMEOUT_SECONDS - (now - db[TaskId].created_at)
    ELSE env.llmApprox + ROUND_02_BUFFER_TIME_REQUIRED
            <= ROUND_02_TIMEOUT_SECONDS - (now - db[TaskId].created_at)

(* C1: in either round an LLM call is made only in a loop iteration entered   *)
(* from a deadline check that found estimated_llm_time + buffer <=           *)
(* ROUND_TIMEOUT - (now - created_at); and when the first check of the loop   *)
(* fails, the round makes no LLM call, ends in no error before the            *)
(* notification, and reaches the notification.                                *)
C1_CallOnlyAfterPassedCheck ==
    /\ [][/\ (pc' \in LlmPcs /\ pc # pc')
                => (pc \in {"r1_check", "r2_check"} /\ EnoughTimeNow(pc))
          /\ (obs'.llmCalls # obs.llmCalls) => pc \in LlmPcs]_vars
    /\ [](obs.skippedAtEntry =>
            /\ obs.llmCalls = 0
            /\ pc \in AfterLoopPcs
            /\ (EndedInError => obs.notifyCalls = 1))
    /\ (obs.skippedAtEntry ~> obs.notifyCalls = 1)

C1_Witness ==
    /\ obs.skippedAtEntry
    /\ obs.llmCalls = 0
    /\ obs.notifyCalls = 1
    /\ result.kind = "returned"

(* C2: the LLM loop of each round always ends, provided the clock keeps      *)
(* advancing and the worker keeps running, and it ends only through a        *)
(* successful iteration or through a deadline check that found a lack of     *)
(* time.                                                                      *)
C2_LoopTerminates ==
    /\ (pc \in LoopPcs ~> pc \notin LoopPcs)
    /\ [][(pc \in LoopPcs /\ pc' \notin LoopPcs)
            => \/ (pc \in LlmPcs /\ obs'.succIters = obs.succIters + 1)
               \/ (pc \in {"r1_check", "r2_check"} /\ ~EnoughTimeNow(pc))]_vars

C2_Witness ==
    /\ obs.iterFailed
    /\ obs.succIters = 0
    /\ pc \in AfterLoopPcs
    /\ ~obs.skippedAtEntry

(* C3: an exception raised in any step of an LLM-loop iteration never ends   *)
(* the round with an error: control returns to the deadline check of the     *)
(* same round, and the round still reaches the notification.                 *)
C3_IterationFailureAbsorbed ==
    /\ [][(pc \in LlmPcs /\ obs'.iterExc # NoExc)
            => /\ pc' = (IF pc = "r1_llm" THEN "r1_check" ELSE "r2_check")
               /\ result' = NoResult]_vars
    /\ [](obs.iterFailed /\ EndedInError => obs.notifyCalls = 1)
    /\ (obs.iterFailed ~> obs.notifyCalls = 1)

C3_Witness ==
    /\ obs.iterFailed
    /\ obs.notifyCalls = 1
    /\ result.kind = "returned"

(* C4: within one round run at most one LLM-loop iteration completes         *)
(* successfully, and after it no further LLM call is made in that run.       *)
C4_AtMostOneSuccess ==
    /\ [](obs.succIters <= 1)
    /\ [][obs.succIters >= 1 => obs'.llmCalls = obs.llmCalls]_vars
    /\ [](obs.succIters >= 1 => pc \notin LoopPcs)

C4_Witness ==
    /\ obs.succIters = 1
    /\ obs.llmCalls >= 2
    /\ pc = "done"

(* C5: when a creation call fails with a name collision and fewer than       *)
(* MAX_REPO_CREATION_ATTEMPTS calls have been made, round 1 goes on to       *)
(* another creation call (with a newly drawn name) and has not failed.       *)
C5_CollisionRetried ==
    (obs.lastCreate = "collision" /\ obs.createCalls < MAX_REPO_CREATION_ATTEMPTS)
        => (pc = "r1_create" /\ result = NoResult)

(* C6: a round-1 run makes at most MAX_REPO_CREATION_ATTEMPTS creation       *)
(* calls, however many of them collide.                                      *)
C6_CreationCallsBounded ==
    /\ obs.createCalls <= MAX_REPO_CREATION_ATTEMPTS
    /\ obs.collisions <= obs.createCalls

C6_Witness ==
    /\ obs.collisions >= 1
    /\ pc = "done"

(* C7: a round-1 run that has ended with every creation call colliding made  *)
(* MAX_REPO_CREATION_ATTEMPTS calls and ended in the failure 500 "Exhausted  *)
(* attempts to create a unique repository.", which differs in status code    *)
(* and detail from the 502 of a single creation error.                       *)
C7_ExhaustionIsTerminalFailure ==
    (pc = "done" /\ obs.createCalls >= 1 /\ obs.collisions = obs.createCalls)
        => /\ obs.createCalls = MAX_REPO_CREATION_ATTEMPTS
           /\ result = HTTPException(500, "Exhausted attempts to create a unique repository.")

(* C8: a creation failure other than a name collision ends round 1 at once   *)
(* with a 502 error: no other creation call, no clone, no LLM call and no    *)
(* notification follow.                                                      *)
C8_CreationFailureIs502 ==
    obs.lastCreate = "failure"
        => /\ pc = "done"
           /\ result.kind = "HTTPException"
           /\ result.status_code = 502
           /\ obs.setupCalls = 0
           /\ obs.llmCalls = 0
           /\ obs.notifyCalls = 0

(* C9: once a creation has succeeded and the clone/seed step is about to     *)
(* begin or has begun, the record holds the name, clone URL, base path and   *)
(* owner of the repository that was created.                                 *)
C9_IdentityPersistedBeforeSeeding ==
    (pc = "r1_setup" \/ obs.setupCalls >= 1)
        => /\ HasTask(db, TaskId)
           /\ db[TaskId].repo_name = frame.repo_name
           /\ db[TaskId].repo_name \in obs.created
           /\ db[TaskId].repo_clone_url = RepoInfo(frame.repo_name).html_url
           /\ db[TaskId].base_path = BasePath
           /\ db[TaskId].owner = HostOwner

C9_Witness ==
    /\ obs.setupCalls = 1
    /\ obs.setupExc = NoExc
    /\ pc = "r1_pages"

(* C10: a round-1 run creates at most one remote repository: after a         *)
(* creation has succeeded no creation call follows, and a failure of the     *)
(* clone, the seeding, the commit or the push ends the run with a 500 error. *)
C10_OneRepositoryPerRun ==
    /\ Cardinality(obs.created) <= 1
    /\ obs.created # {} => (pc # "r1_create" /\ obs.lastCreate = "created")
    /\ (obs.setupExc # NoExc /\ obs.setupExc # DbError)
            => /\ pc = "done"
               /\ result.kind = "HTTPException"
               /\ result.status_code = 500

C10_Witness ==
    /\ obs.setupExc.cls = "CalledProcessError"
    /\ Cardinality(obs.created) = 1
    /\ pc = "done"

\* The run is a round-1 run that has reached its LLM loop: creation, seeding
\* and hosting enablement succeeded.
R1Prepared == obs.pagesCalls = 1 /\ obs.checks >= 1

(* C11: if enabling static hosting fails, round 1 ends with a 502 error and  *)
(* makes no LLM call, no archival and no notification afterwards.            *)
C11_HostingFailureIs502 ==
    obs.pagesExc # NoExc
        => /\ pc = "done"
           /\ result.kind = "HTTPException"
           /\ result.status_code = 502
           /\ obs.llmCalls = 0
           /\ obs.archiveCalls = 0
           /\ obs.notifyCalls = 0

(* C12: in a round-1 run in which creation, seeding and hosting enablement   *)
(* succeeded, the notifier is invoked exactly once, after the LLM loop has   *)
(* ended and after the archival attempt, whether or not archival failed.     *)
C12_NotifiedOnceAfterArchive ==
    /\ [](obs.notifyCalls <= 1)
    /\ [][(pc = "r1_notify" /\ obs'.notifyCalls # obs.notifyCalls)
            => /\ obs.archiveCalls = 1
               /\ obs.notifyCalls = 0
               /\ obs'.notifyCalls = 1]_vars
    /\ [][(obs'.notifyCalls # obs.notifyCalls) => pc \in {"r1_notify", "r2_notify"}]_vars
    /\ []((R1Prepared /\ pc = "done") => (obs.notifyCalls = 1 /\ obs.archiveCalls = 1))
    /\ (R1Prepared ~> obs.notifyCalls = 1)

C12_Witness ==
    /\ R1Prepared
    /\ obs.archiveFailed
    /\ obs.notifyCalls = 1
    /\ pc = "done"

(* C13: the notifier POSTs at most 20 times, makes no POST after the first   *)
(* successful one, and if every attempt fails the failure of the last one    *)
(* propagates and the round handler reports 502.                             *)
C13_NotifierBounded ==
    obs.notifyCalls = 1
        => /\ obs.posts \in 1..20
           /\ IF obs.postOkAt \in 1..20
              THEN obs.posts = obs.postOkAt /\ result.kind = "returned"
              ELSE /\ obs.posts = 20
                   /\ result.kind = "HTTPException"
                   /\ result.status_code = 502

C13_Witness ==
    /\ obs.notifyCalls = 1
    /\ obs.posts = 20
    /\ obs.postOkAt = 0
    /\ result.status_code = 502

\* The columns that are not round-1 archive columns.
CurrentColumns ==
    {"email", "round", "nonce", "brief", "evaluation_url", "checks", "attachments",
     "llm_output_path", "created_files", "commit_message", "commit_hash",
     "repo_name", "repo_clone_url", "base_path", "owner", "repo_local_path",
     "pages_url", "created_at", "updated_at"}

\* row `after` is row `before` archived: every round1_<f> holds what <f> held.
ArchivedFrom(after, before) ==
    /\ after.round1_email = before.email
    /\ after.round1_nonce = before.nonce
    /\ after.round1_brief = before.brief
    /\ after.round1_evaluation_url = before.evaluation_url
    /\ after.round1_checks = before.checks
    /\ after.round1_attachments = before.attachments
    /\ after.round1_llm_output_path = before.llm_output_path
    /\ after.round1_created_files = before.created_files
    /\ after.round1_commit_message = before.commit_message
    /\ after.round1_commit_hash = before.commit_hash
    /\ after.round1_created_at = before.created_at
    /\ after.round1_updated_at = before.updated_at

(* C14: an archival that takes effect sets every round1_<f> field to the     *)
(* value the current field <f> had immediately before it, and changes no     *)
(* current field other than updated_at.                                      *)
C14_ArchiveCopiesCurrent ==
    [][(obs'.archiveCalls # obs.archiveCalls /\ ~obs'.archiveFailed)
        => /\ ArchivedFrom(db'[TaskId], db[TaskId])
           /\ \A c \in CurrentColumns \ {"updated_at"} : db'[TaskId][c] = db[TaskId][c]
           /\ DOMAIN db'[TaskId] = DOMAIN db[TaskId]]_vars

C14_Witness ==
    /\ obs.archiveCalls = 1
    /\ ~obs.archiveFailed
    /\ db[TaskId].round1_commit_hash # NULL
    /\ db[TaskId].round1_commit_message # NULL
    /\ db[TaskId].round1_updated_at < db[TaskId].updated_at

\* The round1_* fields of the task have been populated by an archival.
Round1Populated(store) == HasTask(store, TaskId) /\ store[TaskId].round1_created_at # NullTime

(* C15: once the round1_* fields of a task have been populated by archival,  *)
(* no later step changes them: archival runs at most once in a round-1 run,  *)
(* only at the archival step of round 1, and never in round-2 processing.    *)
C15_ArchiveWriteOnce ==
    /\ [](obs.archiveCalls <= 1)
    /\ [][obs'.archiveCalls # obs.archiveCalls => pc = "r1_archive"]_vars
    /\ [][Round1Populated(db)
            => \A a \in ArchivedColumns :
                    db'[TaskId][Round1Column(a)] = db[TaskId][Round1Column(a)]]_vars

C15_Witness ==
    /\ Round1Populated(db)
    /\ db[TaskId].round = 2
    /\ obs.notifyCalls = 1
    /\ db[TaskId].commit_hash # db[TaskId].round1_commit_hash
    /\ db[TaskId].round1_commit_hash # NULL

R1Pcs == {"r1_create", "r1_setup", "r1_pages", "r1_check", "r1_llm", "r1_archive",
          "r1_wait", "r1_notify"}
R2Pcs == {"r2_attach", "r2_check", "r2_llm", "r2_wait", "r2_notify"}

C17_Round2NeedsRepository ==
    (pc = "r2_notify" \/ (pc = "done" /\ HasTask(db, TaskId) /\ obs.notifyCalls = 1
                            /\ db[TaskId].round = 2)) =>
        /\ db[TaskId].repo_local_path # NULL
        /\ db[TaskId].repo_name # NULL
        /\ db[TaskId].owner # NULL

\* The stored round of the record is neither 1 nor 2.
OtherRound(store) == HasTask(store, TaskId) /\ store[TaskId].round \notin {1, 2}

\* C18: for every task record whose stored round is not 1 or 2,
\* handle_llm_task fails with a 400 error whose detail names the round value,
\* runs neither round procedure, and leaves the record unchanged.
C18_UnsupportedRoundIs400 ==
    /\ [][(OtherRound(db) /\ pc = "idle" /\ pc' # pc) =>
            /\ pc' = "done"
            /\ result' = HTTPException(400, "Unsupported round index: "
                                            \o ToStr(db[TaskId].round))
            /\ db' = db]_vars
    /\ [](OtherRound(db) =>
            /\ pc \in {"idle", "done"}
            /\ obs = NoObs
            /\ git = NoCheckout
            /\ db \in FreshRecords({db[TaskId].round}))
    /\ []((OtherRound(db) /\ pc = "done") =>
            /\ result.kind = "HTTPException"
            /\ result.status_code = 400)

C18_Witness ==
    /\ OtherRound(db)
    /\ pc = "done"
    /\ db[TaskId].round = 3
    /\ result = HTTPException(400, "Unsupported round index: 3")

\* The outcome handle_llm_task gives for an unsupported round: the 400 error
\* of task_handler.py lines 39-42, whatever value its detail names.
UnsupportedRoundOutcome(res) ==
    /\ res.kind = "HTTPException"
    /\ res.status_code = 400
    /\ res.detail \in {"Unsupported round index: " \o v : v \in {"None", "0", "3"}}

\* C19: handle_llm_task on a task id that has no record fails with a NotFound
\* outcome that is distinct from the UnsupportedRound outcome, and creates
\* no record.
C19_MissingRecordIsNotFound ==
    (~HasTask(db, TaskId) /\ pc = "done") =>
        /\ result.kind \in {"HTTPException", "uncaught"}
        /\ ~UnsupportedRoundOutcome(result)
        /\ db = EmptyStore

\* The call left the dispatcher in this step.
Dispatched == pc = "idle" /\ pc' # pc

C21_Round2NotImplemented ==
    (HasTask(db, TaskId) /\ db[TaskId].round = 2 /\ pc # "idle") =>
        /\ pc = "done"
        /\ result.kind = "HTTPException"
        /\ result.status_code = 501

\* The n-th scripted response is a body of one block carrying marker st.
OneBlock(n, st) ==
    /\ n <= Len(llmClient.script)
    /\ llmClient.script[n].kind = "json"
    /\ Len(llmClient.script[n].output) = 1
    /\ llmClient.script[n].output[1].status = st

\* The text of the n-th scripted response.
ChunkOf(n) == JoinText(llmClient.script[n].output)

\* The endpoint answers truncated, truncated, completed and the ceiling is at
\* least 2.
TruncTruncCompleted ==
    /\ llmClient.ceiling >= 2
    /\ OneBlock(1, "incomplete") /\ OneBlock(2, "incomplete") /\ OneBlock(3, "completed")

\* C22 as stated: request_llm_and_get_output, given responses with statuses
\* [truncated, truncated, completed] and a continuation ceiling of at least 2,
\* makes exactly three API calls (two continuations) and returns the
\* concatenation of the three text chunks in order.
C22_ReturnsConcatenation ==
    (TruncTruncCompleted /\ llmClient.pc = "returned") =>
        /\ Len(llmClient.requests) = 3
        /\ llmClient.continuation_attempts = 2
        /\ llmClient.ret = ChunkOf(1) \o ChunkOf(2) \o ChunkOf(3)

\* C22, amended: under the same conditions the client makes exactly three API
\* calls (two continuations), never more, and returns the concatenation of
\* the three text chunks in order with leading and trailing whitespace
\* stripped.
C22_ReturnsStrippedConcatenation ==
    TruncTruncCompleted =>
        /\ Len(llmClient.requests) <= 3
        /\ llmClient.pc # "raised"
        /\ llmClient.pc \in {"after", "returned"} =>
              /\ Len(llmClient.requests) = 3
              /\ llmClient.continuation_attempts = 2
              /\ llmClient.full_text = ChunkOf(1) \o ChunkOf(2) \o ChunkOf(3)
        /\ llmClient.pc = "returned" =>
              llmClient.ret = strip(ChunkOf(1) \o ChunkOf(2) \o ChunkOf(3))

C22_Witness ==
    /\ TruncTruncCompleted
    /\ llmClient.pc = "returned"
    /\ ChunkOf(1) = <<" ", "b", "\n">>
    /\ ChunkOf(2) = <<"a">>
    /\ ChunkOf(3) = <<" ", "b", "\n">>
    /\ llmClient.ret = <<"b", "\n", "a", " ", "b">>

\* The concatenation of the first n scripted chunks.
RECURSIVE ChunksUpTo(_)
ChunksUpTo(n) == IF n = 0 THEN <<>> ELSE ChunksUpTo(n - 1) \o ChunkOf(n)

\* Every response the client can ask for is truncated.
OnlyTruncated == \A n \in 1..(llmClient.ceiling + 1) : OneBlock(n, "incomplete")

C24_ContinuationCarriesFollowUp ==
    \A i \in 2..Len(llmClient.requests) :
        /\ llmClient.requests[i].previous_response_id = llmClient.script[i - 1].id
        /\ \E j \in DOMAIN llmClient.requests[i].input :
              llmClient.requests[i].input[j] = ContinueTurn

\* The part of C24 the client does satisfy: the identifier is carried.
ContinuationCarriesIdentifier ==
    \A i \in 2..Len(llmClient.requests) :
        /\ llmClient.requests[i].previous_response_id = llmClient.script[i - 1].id
        /\ llmClient.requests[i].previous_response_id # NULL

\* Some output block of the response carries a marker other than "completed"
\* (in any capitalisation).
AnyBlockTruncated(response) ==
    \E b \in DOMAIN response.output : Lower(response.output[b].status) # "completed"

\* C25: while continuation budget remains, a continuation is issued for every
\* response in which any output block carries a status other than
\* 'completed', and for no response whose blocks are all 'completed'.
C25_ContinueIffAnyBlockTruncated ==
    /\ \A i \in 1..(Len(llmClient.requests) - 1) :
          AnyBlockTruncated(llmClient.script[i])
    /\ (llmClient.pc \in {"after", "returned"}
            /\ Len(llmClient.requests) <= llmClient.ceiling) =>
          ~AnyBlockTruncated(llmClient.script[Len(llmClient.requests)])

\* C26: a transport failure on the initial call or on any continuation call
\* propagates out of request_llm_and_get_output immediately: the client makes
\* no further API call and returns no partial text; retrying is left to the
\* round controller's loop.
C26_TransportFailurePropagates ==
    /\ [](\A i \in 1..Len(llmClient.requests) :
            llmClient.script[i].kind = "error" =>
                /\ i = Len(llmClient.requests)
                /\ llmClient.pc = "raised"
                /\ llmClient.ret = <<>>)
    /\ [](llmClient.pc = "raised" =>
            llmClient.script[Len(llmClient.requests)].kind = "error")
    /\ [][llmClient.pc = "raised" => llmClient' = llmClient]_vars
    /\ [](\A cls \in {"requests.ConnectionError", "requests.HTTPError"} :
            /\ LoopNextPc(Exc(cls, "LLM endpoint failed"), "r1_check", "r1_archive") = "r1_check"
            /\ LoopNextPc(Exc(cls, "LLM endpoint failed"), "r2_check", "r2_wait") = "r2_check")

C26_Witness ==
    /\ llmClient.pc = "raised"
    /\ Len(llmClient.requests) = 2
    /\ llmClient.full_text # <<>>
    /\ llmClient.ret = <<>>

\* The names create_files_from_response reserves.
ReservedNames == {"LICENSE", "commit_message"}

\* The elements handled so far (all of them once the function returned).
Handled == 1..(writer.i - 1)

Range(seq) == {seq[k] : k \in DOMAIN seq}

\* C27: create_files_from_response never writes a file for an entry named
\* LICENSE or commit_message: the LICENSE already in the checkout is left
\* unchanged, the commit_message entry's content is stored in the record's
\* commit_message field, and neither name appears in the returned list.
C27_ReservedEntriesNotWritten ==
    /\ writer.tree["LICENSE"] = SeededTree["LICENSE"]
    /\ \A k \in DOMAIN writer.elements :
          PathName(writer.elements[k].path) \in ReservedNames =>
              /\ PathStr(writer.elements[k].path) \notin Range(writer.wrote)
              /\ PathStr(writer.elements[k].path) \notin Range(writer.ret)
              /\ PathStr(writer.elements[k].path) \notin DOMAIN writer.tree \ DOMAIN SeededTree
    /\ \A p \in DOMAIN writer.tree \ DOMAIN SeededTree : p \notin {"docs/LICENSE", "commit_message"}
    /\ db[TaskId].commit_message =
          IF \E k \in Handled : PathName(writer.elements[k].path) = "commit_message"
          THEN "feat: generated app"
          ELSE NULL

C27_Witness ==
    /\ writer.pc = "returned"
    /\ Len(writer.elements) = 3
    /\ writer.elements[1].path = <<"LICENSE">>
    /\ writer.elements[2].path = <<"commit_message">>
    /\ writer.elements[3].path = <<"index.html">>
    /\ writer.ret = <<"index.html">>
    /\ writer.tree["index.html"] = "<html></html>"
    /\ db[TaskId].commit_message = "feat: generated app"

\* The relative paths of the elements among the first n that are not
\* reserved, in declaration order.
RECURSIVE DeclaredPaths(_)
DeclaredPaths(n) ==
    IF n = 0 THEN <<>>
    ELSE IF PathName(writer.elements[n].path) \in ReservedNames
    THEN DeclaredPaths(n - 1)
    ELSE Append(DeclaredPaths(n - 1), PathStr(writer.elements[n].path))

\* C28: the list returned by create_files_from_response contains exactly the
\* relative paths of the files it wrote, one per non-reserved declared entry,
\* in declaration order (and this list is what is stored in created_files).
C28_ReturnedListIsFilesWritten ==
    /\ writer.created_files = writer.wrote
    /\ writer.wrote = DeclaredPaths(writer.i - 1)
    /\ \A p \in Range(writer.wrote) : p \in DOMAIN writer.tree
    /\ writer.pc \in {"returned", "stored"} =>
          /\ writer.ret = writer.wrote
          /\ writer.ret = DeclaredPaths(Len(writer.elements))
    /\ writer.pc = "stored" => db[TaskId].created_files = JsonDumps(writer.ret)
    /\ writer.pc # "stored" => db[TaskId].created_files = NULL

C28_Witness ==
    /\ writer.pc = "stored"
    /\ writer.ret = <<"assets/logo.png", "index.html", "assets/logo.png">>
    /\ db[TaskId].created_files = "[\"assets/logo.png\", \"index.html\", \"assets/logo.png\"]"
    /\ writer.tree["assets/logo.png"] = "hi"

\* C29: git_commit_and_push with nothing staged after 'add all' creates no
\* commit, performs no push, raises no error and returns no commit hash.
C29_NothingStagedIsNoOp ==
    /\ [](~git.dirty =>
            \A message \in {NULL, "feat: generated app"},
               outcome \in GitOutcomes \ {"add_fails"} :
                git_commit_and_push(git, TRUE, message, outcome) =
                    [git |-> git, ret |-> NULL, exc |-> NoExc])
    /\ [][(obs'.succIters = obs.succIters + 1 /\ git'.head = git.head) =>
            /\ git' = git
            /\ db'[TaskId].commit_hash = NULL]_vars

C29_Witness ==
    /\ obs.succIters = 1
    /\ pc = "done"
    /\ db[TaskId].round = 1
    /\ git = [cloned |-> TRUE, head |-> 1, remoteHead |-> 1, dirty |-> FALSE]
    /\ db[TaskId].created_files = "[index.html]"
    /\ db[TaskId].commit_hash = NULL
    /\ result.kind = "returned"

\* C30: the record's commit_hash always reflects the last pushed commit: a
\* commit-and-push that turns out to be a no-op does not clear or replace a
\* previously recorded hash, so the commit_sha sent in the notification is
\* that of the last pushed commit whenever some push succeeded for the task.
\* (Stated for runs in which no LLM-loop iteration failed.)
C30_HashIsLastPushed ==
    (HasTask(db, TaskId) /\ git.remoteHead >= 1 /\ ~obs.iterFailed
        /\ (pc \in {"r1_notify", "r2_notify"} \/ obs.notifyCalls = 1)) =>
            db[TaskId].commit_hash = ShortHash(git.remoteHead)

\* Dictionaries a caller may hand to upsert_task.
UpsertSamples ==
    {[commit_hash |-> "sha9"],
     [repo_local_path |-> "/srv/all_repositories/x", commit_hash |-> NULL],
     [brief |-> "brief-new", nonce |-> "nonce-new", updated_at |-> 7],
     [round1_email |-> "other@example.com", created_at |-> 5]}

\* C31: upsert_task(task_id, data) on an existing record changes only the
\* fields named in data (plus updated_at); every other field, including the
\* round1_* fields, keeps its previous value; on an id with no record it
\* inserts a new record.
C31_UpsertMergesFields ==
    /\ [](\A data \in UpsertSamples :
            LET after == upsert_task(db, TaskId, data, now) IN
                /\ DOMAIN after = DOMAIN db \cup {TaskId}
                /\ DOMAIN after[TaskId] = Columns
                /\ \A c \in DOMAIN data \ {"updated_at"} : after[TaskId][c] = data[c]
                /\ HasTask(db, TaskId) =>
                      \A c \in Columns \ (DOMAIN data \cup {"updated_at"}) :
                          after[TaskId][c] = db[TaskId][c]
                /\ ~HasTask(db, TaskId) =>
                      \A c \in Columns \ DOMAIN data :
                          after[TaskId][c] = ColumnDefault(c, now))
    /\ [][(HasTask(db, TaskId) /\ pc \in {"r1_create", "r1_setup", "r1_pages", "r2_attach"}) =>
            /\ HasTask(db', TaskId)
            /\ \A c \in Columns \ {"repo_name", "repo_clone_url", "base_path", "owner",
                                   "repo_local_path", "pages_url", "commit_hash", "updated_at"} :
                  db'[TaskId][c] = db[TaskId][c]]_vars

C31_Witness ==
    /\ HasTask(db, TaskId)
    /\ pc = "r2_check"
    /\ db[TaskId].commit_hash = "sha3"
    /\ db[TaskId].round1_commit_hash = "sha2"
    /\ db[TaskId].round1_nonce = "nonce-r1"
    /\ db[TaskId].nonce = "nonce-r2"
    /\ db[TaskId].updated_at > db[TaskId].round1_updated_at

\* The record of the task changed in this step.
RecordMutated == HasTask(db, TaskId) /\ HasTask(db', TaskId) /\ db'[TaskId] # db[TaskId]

\* C32: after any mutation of an existing record (an upsert on an existing
\* task id, or archival), updated_at equals the time of that mutation,
\* whatever updated_at value the caller supplied.
C32_UpdatedAtIsDerived ==
    /\ [][RecordMutated => db'[TaskId].updated_at = now]_vars
    /\ [](HasTask(db, TaskId) =>
            /\ \A supplied \in {0, 7, now + 1} :
                  /\ upsert_task(db, TaskId, [updated_at |-> supplied], now)[TaskId].updated_at = now
                  /\ upsert_task(db, TaskId, SubmitData(2, "[]", supplied), now)[TaskId].updated_at = now
            /\ archive_task_round_01(db, TaskId, now)[TaskId].updated_at = now
            /\ db[TaskId].updated_at <= now)

C32_Witness ==
    /\ HasTask(db, TaskId)
    /\ obs.archiveCalls = 1
    /\ ~obs.archiveFailed
    /\ pc = "r1_wait"
    /\ db[TaskId].updated_at = now
    /\ db[TaskId].round1_updated_at < now
    /\ db[TaskId].created_at < now

C34_RecordNeverDeleted ==
    [][HasTask(db, TaskId) => HasTask(db', TaskId)]_vars

\* C35: a submission carrying the correct secret (with the secret configured
\* on the server) is answered with success, its request fields are then in
\* the record store, and exactly one background run of handle_llm_task has
\* been scheduled for it.
C35_CorrectSecretAccepted ==
    (/\ intake.submitted = 1
     /\ intake.detail \notin {"Invalid secret.",
                              "Server misconfiguration: missing shared secret."})
        => /\ intake.status_code = 200
           /\ Cardinality(intake.scheduled) = 1
           /\ HasTask(db, TaskId)
           /\ db[TaskId].round \in intake.scheduled

\* C36: an LLM iteration that meets no outside failure, on a record holding
\* no commit message and with an LLM output carrying no commit_message entry,
\* completes successfully, and the files it changed are committed and pushed.
C36_DefaultCommitMessage ==
    \A out \in LlmOutputs :
        (/\ HasTask(db, TaskId)
         /\ pc \in LlmPcs
         /\ env.githubToken
         /\ frame.complete_repo_path # NULL
         /\ db[TaskId].commit_message = NULL
         /\ out.wellFormed
         /\ out.commit_message = NULL
         /\ (pc = "r2_llm" => db[TaskId].round1_llm_output_path # NULL))
            => LET r == LlmIteration(IF pc = "r1_llm" THEN 1 ELSE 2, db, git,
                                     frame.complete_repo_path, env.githubToken,
                                     "none", out, "ok", now)
               IN  /\ r.exc = NoExc
                   /\ r.git.remoteHead = r.git.head
                   /\ ~r.git.dirty

\* C37: when the LLM loop of a round has left through its success path (a
\* successful iteration followed by `break`), the remote branch holds every
\* commit of the local checkout, also when an earlier iteration of the loop
\* committed locally and then failed in the push.
C37_SuccessMeansPushed ==
    (pc \in {"r1_archive", "r2_wait"} /\ obs.succIters >= 1)
        => git.remoteHead = git.head

\* Round 2 is recorded on a task whose round 1 was archived without any LLM
\* output.
Round2WithoutRound1Output ==
    /\ HasTask(db, TaskId)
    /\ db[TaskId].round = 2
    /\ Round1Populated(db)
    /\ db[TaskId].round1_llm_output_path = NULL

\* C38: when round 1 was archived without stored LLM output, every iteration
\* of the round-2 LLM loop fails before the LLM is called and returns to the
\* deadline check, no LLM call and no successful iteration is ever made, the
\* loop is left only through a deadline check that finds a lack of time, and
\* (the clock advancing and the worker running) the round-2 notification is
\* sent.
C38_Round2WithoutOutputSkips ==
    /\ [][(Round2WithoutRound1Output /\ pc = "r2_llm" /\ pc' # pc)
            => /\ pc' = "r2_check"
               /\ obs'.iterExc # NoExc
               /\ obs'.llmCalls = obs.llmCalls
               /\ db' = db /\ git' = git]_vars
    /\ []((Round2WithoutRound1Output /\ pc \in R2Pcs \cup {"done"})
            => (obs.llmCalls = 0 /\ obs.succIters = 0))
    /\ [][(Round2WithoutRound1Output /\ pc \in {"r2_check", "r2_llm"}
                /\ pc' \notin {"r2_check", "r2_llm"})
            => (pc = "r2_check" /\ pc' = "r2_wait" /\ ~EnoughTimeNow(pc))]_vars
    /\ ((Round2WithoutRound1Output /\ pc = "r2_check") ~> obs.notifyCalls = 1)

\* Round 2 on such a record has failed in an iteration, made no LLM call,
\* and has sent its notification.
C38_Witness ==
    /\ Round2WithoutRound1Output
    /\ obs.iterFailed
    /\ obs.checks >= 2
    /\ obs.llmCalls = 0
    /\ obs.notifyCalls = 1
    /\ pc = "done"
    /\ result.kind = "returned"

\* C39: when the saved LLM output is not well-formed markup,
\* create_files_from_response raises before it has created a directory,
\* written a file or updated the record: the checkout is the seeded one and
\* the record is the one the call started from, commit_message included,
\* whatever elements precede the place where the markup breaks.
C39_ParseFailureLeavesNoTrace ==
    (~writer.wellFormed /\ writer.pc # "open")
        => /\ writer.pc = "raised"
           /\ writer.tree = SeededTree
           /\ writer.dirs = {}
           /\ writer.wrote = <<>>
           /\ writer.created_files = <<>>
           /\ db = upsert_task(EmptyStore, TaskId, RequestData(1, "[]", 0), 0)
           /\ db[TaskId].commit_message = NULL

\* A malformed output holding a file element in a new folder and a
\* commit_message element has been rejected.
C39_Witness ==
    /\ ~writer.wellFormed
    /\ writer.pc = "raised"
    /\ Len(writer.elements) = 2
    /\ writer.elements[1].path = <<"assets", "logo.png">>
    /\ writer.elements[2].path = <<"commit_message">>
    /\ writer.tree = SeededTree
    /\ db[TaskId].commit_message = NULL

====
